---- MODULE Spec2Model ----
(***************************************************************************)
(* Cluster tunnel fabric: the master's TunnelManager (slave registry,      *)
(* pending HTTP requests, WebSocket tunnels) and the slave's TunnelClient, *)
(* joined by control connections that carry JSON frames in FIFO order.     *)
(***************************************************************************)
EXTENDS Integers, Sequences, FiniteSets, TLC

\* ------------------------------------------------------------------ bounds
MaxConns == 2
MaxRequests == 2
MaxTunnels == 1
MaxFrames == 2
MaxQueue == 1
MaxPings == 1
MaxCalls == 2
MaxFailedDials == 4
MaxBuffered == 1

Conns == 1..MaxConns
Dials == 1..(MaxConns + MaxFailedDials)
RequestIds == 1..MaxRequests
TunnelIds == 1..MaxTunnels
CallIds == 1..MaxCalls

\* --------------------------------------------------------------- constants
NoSlave == "none"
NoSecret == "none"
NoError == "none"
NoRequest == 0
SlaveIds == {"s1", "s2"}
Secret == "secret"
Secrets == {Secret, "wrong", NoSecret}
Channels == {"ws", "shell"}

AuthTimeoutCode == 4001
AuthFailedCode == 4002
ExpectedAuthCode == 4003
ReplacedCode == 4004

ServiceUnavailable == 503
BadGateway == 502
\* response.headers when the frame has none (undefined).
NoHeaders == [undefined |-> TRUE]
NoValue == "none"

\* The header names sanitizeHeaders deletes.
StrippedHeaders ==
  {"connection", "keep-alive", "proxy-authenticate", "proxy-authorization",
   "te", "trailers", "transfer-encoding", "upgrade", "x-target-slave"}

\* User requests (method and header object; Node presents header names in
\* lower case).
UserRequests ==
  { [method |-> "GET",
     headers |-> [h \in {"accept", "connection", "keep-alive", "x-target-slave"} |->
                    IF h = "x-target-slave" THEN "s1"
                    ELSE IF h = "accept" THEN "json" ELSE "keep-alive"]],
    [method |-> "POST",
     headers |-> [h \in {"authorization", "proxy-authenticate", "proxy-authorization",
                         "te", "trailers", "x-target-slave"} |->
                    IF h = "x-target-slave" THEN "s2"
                    ELSE IF h = "authorization" THEN "Bearer t" ELSE "x"]],
    [method |-> "HEAD",
     headers |-> [h \in {"cookie", "host", "transfer-encoding", "upgrade",
                         "x-cluster-internal-auth"} |->
                    IF h = "cookie" THEN "c=1"
                    ELSE IF h = "host" THEN <<"master", 80>>
                    ELSE IF h = "x-cluster-internal-auth" THEN "forged"
                    ELSE "chunked"]] }

\* ------------------------------------------------------------------- state
VARIABLES
  \* master: one entry per control connection handed to handleConnection
  connState,          \* ws.readyState seen by the master ("unused" before accept)
  connAuthenticated,  \* handleConnection's closure variable `authenticated`
  connSlaveId,        \* handleConnection's closure variable `slaveId`
  authTimer,          \* connections whose authTimer is armed
  closeCode,          \* code of the close the master issued on the connection (0: none)
  slaves,             \* this.slaves: set of records, one per key
  pendingRequests,    \* keys of this.pendingRequests
  reqTimer,           \* request ids whose requestTimeout timer is armed
  req,                \* per forwardHttpRequest call: the call's arguments and its promise
  nextRequestId,      \* next fresh request id
  tunnels,            \* this.tunnels: set of records, one per key
  tunnelWs,           \* createWsTunnel's closure variable `slave` (its ws), per tunnel
  userWs,             \* readyState of the user-side WebSocket of each tunnel
  userSent,           \* number of frames the user WebSocket has emitted
  userRecv,           \* frames written to the user WebSocket
  userBuffered,       \* frames in the user WebSocket's write buffer (bufferedAmount)
  nextTunnelId,       \* next fresh tunnel id
  nextConn,           \* next fresh control connection
  toSlave,            \* frames in flight master -> slave, per connection
  toMaster,           \* frames in flight slave -> master, per connection
  \* slave: the TunnelClient
  started,            \* start() has run and stop() has not run since
  clientWs,           \* this.ws (0: null)
  peerState,          \* readyState of each WebSocket the client created (per dial)
  authenticated,      \* this.authenticated
  reconnectAttempts,  \* this.reconnectAttempts
  reconnectTimer,     \* this.reconnectTimer is armed
  reconnectDelay,     \* totalDelay of the armed reconnect timer, in ms (0: none armed)
  pingInterval,       \* this.pingInterval is armed
  localTunnels,       \* keys of this.localTunnels
  localWs,            \* readyState of the local WebSocket opened for each tunnel
  localConn,          \* control connection whose ws_tunnel_open created localWs
  localSent,          \* number of frames the local WebSocket has emitted
  localRecv,          \* frames written to the local WebSocket
  localHttp,          \* per requestId: the local HTTP call forwardToLocal issued
  \* master: the request-router middleware
  calls,              \* per middleware invocation: its request and what it wrote to res
  nextCall,           \* next fresh invocation
  \* the cluster routes
  tunnelManager,      \* createClusterRoutes was given a TunnelManager
  deploymentMode,     \* process.env.DEPLOYMENT_MODE ("": not set)
  clusterReply,       \* what the last cluster route handler wrote to res
  \* the browser: utils/api.js
  selectedClient,     \* localStorage item 'cluster-selected-client'
  fetchCall           \* what the last authenticatedFetch passed to fetch

regVars == <<connState, connAuthenticated, connSlaveId, authTimer, closeCode, slaves>>
reqVars == <<pendingRequests, reqTimer, req, nextRequestId>>
tunVars == <<tunnels, tunnelWs, userWs, userSent, userRecv, userBuffered,
            nextTunnelId>>
masterVars == <<regVars, reqVars, tunVars>>
chanVars == <<toSlave, toMaster, nextConn>>
clientVars == <<started, clientWs, peerState, authenticated, reconnectAttempts,
                reconnectTimer, reconnectDelay, pingInterval, localTunnels, localWs, localConn,
                localSent, localRecv>>
routerVars == <<calls, nextCall>>
clusterVars == <<tunnelManager, deploymentMode, clusterReply>>
uiVars == <<selectedClient, fetchCall>>
httpVars == <<routerVars, localHttp, clusterVars, uiVars>>
vars == <<masterVars, chanVars, clientVars, httpVars>>

\* --------------------------------------------------------------- JS Map
MapHas(m, k) == \E r \in m : r.id = k
MapGet(m, k) == CHOOSE r \in m : r.id = k
MapSet(m, k, v) == {r \in m : r.id # k} \cup {v}
MapDelete(m, k) == {r \in m : r.id # k}
MapKeys(m) == {r.id : r \in m}

\* ws.send on the master side: the frame goes out only when the socket is OPEN,
\* and is lost when the other end is gone.
WsSend(q, c, frame) ==
  IF connState[c] = "OPEN" /\ peerState[c] # "CLOSED"
  THEN [q EXCEPT ![c] = Append(@, frame)]
  ELSE q

\* ws.close(code) on the master side of control connection c.
WsClose(c, code) ==
  /\ connState' = IF connState[c] = "OPEN" THEN [connState EXCEPT ![c] = "CLOSING"]
                  ELSE connState
  /\ closeCode' = IF connState[c] = "OPEN" THEN [closeCode EXCEPT ![c] = code]
                  ELSE closeCode

\* localWs.close() on the user WebSockets in set ts, when OPEN.
CloseUserWs(ts) ==
  [t \in TunnelIds |-> IF t \in ts /\ userWs[t] = "OPEN" THEN "CLOSING" ELSE userWs[t]]

\* pending.resolve / pending.reject: a promise settles once, later calls are
\* ignored; the settled call no longer holds its request object.
Settle(rq, r, state, error) ==
  [rq EXCEPT ![r] = [@ EXCEPT !.settles = @ + 1,
                              !.state = IF rq[r].state = "waiting" THEN state ELSE @,
                              !.error = IF rq[r].state = "waiting" THEN error ELSE @,
                              !.ws = 0, !.method = "GET", !.headers = <<>>]]

\* pending.resolve(value)
Resolve(rq, r, value) ==
  [Settle(rq, r, "resolved", NoError) EXCEPT
     ![r].value = IF rq[r].state = "waiting" THEN value ELSE @]

\* sanitizeHeaders as it would be without the delete of 'upgrade'.
sanitizeHeaders_KeepUpgrade(headers) ==
  [h \in DOMAIN headers \ (StrippedHeaders \ {"upgrade"}) |-> headers[h]]

sanitizeHeaders(headers) ==
  [h \in DOMAIN headers \ StrippedHeaders |-> headers[h]]

\* ---------------------------------------------------- master: TunnelManager
\* Each handler below fixes the master's variables and toSlave; the action that
\* delivers the frame fixes the rest.

\* handleAuth as it would be without the close of the connection it replaces.
HandleAuth_NoEvict(c, slaveId, secret) ==
  IF slaveId = NoSlave \/ secret = NoSecret \/ secret # Secret
  THEN /\ WsClose(c, AuthFailedCode)
       /\ UNCHANGED <<connAuthenticated, connSlaveId, authTimer, slaves, toSlave>>
  ELSE /\ UNCHANGED <<connState, closeCode>>
       /\ authTimer' = authTimer \ {c}
       /\ slaves' = MapSet(slaves, slaveId, [id |-> slaveId, ws |-> c, lastPing |-> 0])
       /\ toSlave' = WsSend(toSlave, c, [type |-> "auth_success", slaveId |-> slaveId])
       /\ connAuthenticated' = [connAuthenticated EXCEPT ![c] = TRUE]
       /\ connSlaveId' = [connSlaveId EXCEPT ![c] = slaveId]

\* handleAuth as it would be if it tested only that a secret is present.
HandleAuth_AnySecret(c, slaveId, secret) ==
  IF slaveId = NoSlave \/ secret = NoSecret
  THEN /\ WsClose(c, AuthFailedCode)
       /\ UNCHANGED <<connAuthenticated, connSlaveId, authTimer, slaves, toSlave>>
  ELSE LET evict == MapHas(slaves, slaveId)
                      /\ connState[MapGet(slaves, slaveId).ws] = "OPEN"
           old == MapGet(slaves, slaveId).ws
       IN /\ connState' = IF evict THEN [connState EXCEPT ![old] = "CLOSING"]
                          ELSE connState
          /\ closeCode' = IF evict THEN [closeCode EXCEPT ![old] = ReplacedCode]
                          ELSE closeCode
          /\ authTimer' = authTimer \ {c}
          /\ slaves' = MapSet(slaves, slaveId,
                              [id |-> slaveId, ws |-> c, lastPing |-> 0])
          /\ toSlave' = WsSend(toSlave, c, [type |-> "auth_success", slaveId |-> slaveId])
          /\ connAuthenticated' = [connAuthenticated EXCEPT ![c] = TRUE]
          /\ connSlaveId' = [connSlaveId EXCEPT ![c] = slaveId]

\* handleAuth, with the .then/.catch handleConnection attaches to it.
HandleAuth(c, slaveId, secret) ==
  IF slaveId = NoSlave \/ secret = NoSecret \/ secret # Secret
  THEN /\ WsClose(c, AuthFailedCode)
       /\ UNCHANGED <<connAuthenticated, connSlaveId, authTimer, slaves, toSlave>>
  ELSE LET evict == MapHas(slaves, slaveId)
                      /\ connState[MapGet(slaves, slaveId).ws] = "OPEN"
           old == MapGet(slaves, slaveId).ws
       IN /\ connState' = IF evict THEN [connState EXCEPT ![old] = "CLOSING"]
                          ELSE connState
          /\ closeCode' = IF evict THEN [closeCode EXCEPT ![old] = ReplacedCode]
                          ELSE closeCode
          /\ authTimer' = authTimer \ {c}
          /\ slaves' = MapSet(slaves, slaveId,
                              [id |-> slaveId, ws |-> c, lastPing |-> 0])
          /\ toSlave' = WsSend(toSlave, c, [type |-> "auth_success", slaveId |-> slaveId])
          /\ connAuthenticated' = [connAuthenticated EXCEPT ![c] = TRUE]
          /\ connSlaveId' = [connSlaveId EXCEPT ![c] = slaveId]

\* handleHttpResponse as it would be without clearTimeout.
HandleHttpResponse_NoClear(m) ==
  /\ IF m.requestId \notin pendingRequests
     THEN UNCHANGED reqVars
     ELSE /\ pendingRequests' = pendingRequests \ {m.requestId}
          /\ req' = IF m.error # NoError
                    THEN Settle(req, m.requestId, "rejected", m.error)
                    ELSE Resolve(req, m.requestId,
                                 [status |-> m.status, headers |-> m.headers,
                                  body |-> m.body])
          /\ UNCHANGED <<reqTimer, nextRequestId>>
  /\ UNCHANGED <<regVars, tunVars, toSlave>>

\* handleHttpResponse as it would be without its test of `pending`.
HandleHttpResponse_NoPendingTest(m) ==
  /\ reqTimer' = reqTimer \ {m.requestId}
  /\ pendingRequests' = pendingRequests \ {m.requestId}
  /\ req' = IF m.error # NoError
            THEN Settle(req, m.requestId, "rejected", m.error)
            ELSE Resolve(req, m.requestId,
                         [status |-> m.status, headers |-> m.headers, body |-> m.body])
  /\ UNCHANGED nextRequestId
  /\ UNCHANGED <<regVars, tunVars, toSlave>>

HandleHttpResponse(m) ==
  /\ IF m.requestId \notin pendingRequests
     THEN UNCHANGED reqVars
     ELSE /\ reqTimer' = reqTimer \ {m.requestId}
          /\ pendingRequests' = pendingRequests \ {m.requestId}
          /\ req' = IF m.error # NoError
                    THEN Settle(req, m.requestId, "rejected", m.error)
                    ELSE Resolve(req, m.requestId,
                                 [status |-> m.status, headers |-> m.headers,
                                  body |-> m.body])
          /\ UNCHANGED nextRequestId
  /\ UNCHANGED <<regVars, tunVars, toSlave>>

HandleWsTunnelData(m) ==
  /\ IF MapHas(tunnels, m.tunnelId) /\ userWs[m.tunnelId] = "OPEN"
     THEN /\ userRecv' = [userRecv EXCEPT ![m.tunnelId] = Append(@, m.data)]
          /\ userBuffered' = [userBuffered EXCEPT ![m.tunnelId] = @ + 1]
     ELSE UNCHANGED <<userRecv, userBuffered>>
  /\ UNCHANGED <<tunnels, tunnelWs, userWs, userSent, nextTunnelId>>
  /\ UNCHANGED <<regVars, reqVars, toSlave>>

HandleWsTunnelClosed(m) ==
  /\ IF MapHas(tunnels, m.tunnelId)
     THEN /\ userWs' = CloseUserWs({m.tunnelId})
          /\ tunnels' = MapDelete(tunnels, m.tunnelId)
     ELSE UNCHANGED <<userWs, tunnels>>
  /\ UNCHANGED <<tunnelWs, userSent, userRecv, userBuffered, nextTunnelId>>
  /\ UNCHANGED <<regVars, reqVars, toSlave>>

HandlePing(slaveId, m) ==
  /\ IF MapHas(slaves, slaveId)
     THEN LET slave == MapGet(slaves, slaveId)
          IN /\ slaves' = MapSet(slaves, slaveId, [slave EXCEPT !.lastPing = @ + 1])
             /\ toSlave' = WsSend(toSlave, slave.ws,
                                  [type |-> "pong", timestamp |-> m.timestamp])
     ELSE UNCHANGED <<slaves, toSlave>>
  /\ UNCHANGED <<connState, connAuthenticated, connSlaveId, authTimer, closeCode>>
  /\ UNCHANGED <<reqVars, tunVars>>

\* handleSlaveError as it would be if it cancelled the timer and left the entry.
HandleSlaveError_Forget(slaveId, m) ==
  /\ IF m.requestId # NoRequest /\ m.requestId \in pendingRequests
     THEN /\ reqTimer' = reqTimer \ {m.requestId}
          /\ UNCHANGED <<pendingRequests, req, nextRequestId>>
     ELSE UNCHANGED reqVars
  /\ UNCHANGED <<regVars, tunVars, toSlave>>

HandleSlaveError(slaveId, m) ==
  /\ IF m.requestId # NoRequest /\ m.requestId \in pendingRequests
     THEN /\ reqTimer' = reqTimer \ {m.requestId}
          /\ pendingRequests' = pendingRequests \ {m.requestId}
          /\ req' = Settle(req, m.requestId, "rejected",
                           IF m.error # NoError THEN m.error ELSE "Slave error")
          /\ UNCHANGED nextRequestId
     ELSE UNCHANGED reqVars
  /\ UNCHANGED <<regVars, tunVars, toSlave>>

\* handleSlaveMessage as it would be if an unknown type cost the slave its
\* registration.
HandleSlaveMessage_DropOnUnknown(slaveId, m) ==
  CASE m.type = "response" -> HandleHttpResponse(m)
    [] m.type = "ws_data" -> HandleWsTunnelData(m)
    [] m.type = "ws_tunnel_closed" -> HandleWsTunnelClosed(m)
    [] m.type = "ping" -> HandlePing(slaveId, m)
    [] m.type = "error" -> HandleSlaveError(slaveId, m)
    [] OTHER -> /\ slaves' = MapDelete(slaves, slaveId)
                /\ UNCHANGED <<connState, connAuthenticated, connSlaveId, authTimer,
                               closeCode, reqVars, tunVars, toSlave>>

HandleSlaveMessage(slaveId, m) ==
  CASE m.type = "response" -> HandleHttpResponse(m)
    [] m.type = "ws_data" -> HandleWsTunnelData(m)
    [] m.type = "ws_tunnel_closed" -> HandleWsTunnelClosed(m)
    [] m.type = "ping" -> HandlePing(slaveId, m)
    [] m.type = "error" -> HandleSlaveError(slaveId, m)
    [] OTHER -> UNCHANGED <<masterVars, toSlave>>

\* The message handler as it would be without its test of `authenticated`.
OnMessage_NoAuthGate(c, m) ==
  IF m.type = "malformed"
  THEN UNCHANGED <<masterVars, toSlave>>
  ELSE IF m.type = "auth" /\ ~connAuthenticated[c]
  THEN HandleAuth(c, m.slaveId, m.secret) /\ UNCHANGED <<reqVars, tunVars>>
  ELSE HandleSlaveMessage(connSlaveId[c], m)

\* handleConnection's ws.on('message'): m is the frame, of type "malformed" when
\* JSON.parse throws.
OnMessage(c, m) ==
  IF m.type = "malformed"
  THEN UNCHANGED <<masterVars, toSlave>>
  ELSE IF ~connAuthenticated[c]
  THEN IF m.type = "auth"
       THEN HandleAuth(c, m.slaveId, m.secret) /\ UNCHANGED <<reqVars, tunVars>>
       ELSE /\ WsClose(c, ExpectedAuthCode)
            /\ UNCHANGED <<connAuthenticated, connSlaveId, authTimer, slaves>>
            /\ UNCHANGED <<reqVars, tunVars, toSlave>>
  ELSE HandleSlaveMessage(connSlaveId[c], m)

\* handleConnection: the master accepts control connection c.
HandleConnection(c) ==
  /\ connState[c] = "unused"
  /\ connState' = [connState EXCEPT ![c] = "OPEN"]
  /\ authTimer' = authTimer \cup {c}
  /\ UNCHANGED <<connAuthenticated, connSlaveId, closeCode, slaves>>
  /\ UNCHANGED <<reqVars, tunVars, toSlave>>

\* The authTimer callback.
AuthTimerFire(c) ==
  /\ c \in authTimer
  /\ authTimer' = authTimer \ {c}
  /\ IF ~connAuthenticated[c]
     THEN WsClose(c, AuthTimeoutCode)
     ELSE UNCHANGED <<connState, closeCode>>
  /\ UNCHANGED <<connAuthenticated, connSlaveId, slaves>>
  /\ UNCHANGED <<reqVars, tunVars, toSlave>>

\* The close handler as it would be without clearTimeout(authTimer).
OnClose_KeepTimer(c) ==
  /\ connState[c] \in {"OPEN", "CLOSING"}
  /\ connState' = [connState EXCEPT ![c] = "CLOSED"]
  /\ IF connSlaveId[c] # NoSlave /\ MapHas(slaves, connSlaveId[c])
     THEN LET owned == {t \in MapKeys(tunnels) :
                          MapGet(tunnels, t).slaveId = connSlaveId[c]}
          IN /\ slaves' = MapDelete(slaves, connSlaveId[c])
             /\ userWs' = CloseUserWs(owned)
             /\ tunnels' = {t \in tunnels : t.id \notin owned}
     ELSE UNCHANGED <<slaves, userWs, tunnels>>
  /\ UNCHANGED <<connAuthenticated, connSlaveId, closeCode, authTimer>>
  /\ UNCHANGED <<tunnelWs, userSent, userRecv, userBuffered, nextTunnelId>>
  /\ UNCHANGED <<reqVars, toSlave>>

\* The close handler as it would be without its tunnel clean-up loop.
OnClose_KeepTunnels(c) ==
  /\ connState[c] \in {"OPEN", "CLOSING"}
  /\ connState' = [connState EXCEPT ![c] = "CLOSED"]
  /\ authTimer' = authTimer \ {c}
  /\ IF connSlaveId[c] # NoSlave /\ MapHas(slaves, connSlaveId[c])
     THEN slaves' = MapDelete(slaves, connSlaveId[c])
     ELSE UNCHANGED slaves
  /\ UNCHANGED <<connAuthenticated, connSlaveId, closeCode>>
  /\ UNCHANGED <<tunVars, reqVars, toSlave>>

\* handleConnection's ws.on('close').
OnClose(c) ==
  /\ connState[c] \in {"OPEN", "CLOSING"}
  /\ connState' = [connState EXCEPT ![c] = "CLOSED"]
  /\ authTimer' = authTimer \ {c}
  /\ IF connSlaveId[c] # NoSlave /\ MapHas(slaves, connSlaveId[c])
     THEN LET owned == {t \in MapKeys(tunnels) :
                          MapGet(tunnels, t).slaveId = connSlaveId[c]}
          IN /\ slaves' = MapDelete(slaves, connSlaveId[c])
             /\ userWs' = CloseUserWs(owned)
             /\ tunnels' = {t \in tunnels : t.id \notin owned}
     ELSE UNCHANGED <<slaves, userWs, tunnels>>
  /\ UNCHANGED <<connAuthenticated, connSlaveId, closeCode>>
  /\ UNCHANGED <<tunnelWs, userSent, userRecv, userBuffered, nextTunnelId>>
  /\ UNCHANGED <<reqVars, toSlave>>

\* forwardHttpRequest from the `new Promise` on: arm the timer, record the
\* pending entry, send the frame on the slave's socket looked up at entry.
SendHttpRequest(rq, r) ==
  /\ reqTimer' = reqTimer \cup {r}
  /\ pendingRequests' = pendingRequests \cup {r}
  /\ req' = [rq EXCEPT ![r].state = "waiting"]
  /\ toSlave' = WsSend(toSlave, rq[r].ws,
                       [type |-> "http_request", requestId |-> r,
                        method |-> rq[r].method,
                        headers |-> sanitizeHeaders(rq[r].headers)])

\* forwardHttpRequest up to the first await (the body of a non-GET/HEAD request).
ForwardHttpRequest(slaveId, method, headers) ==
  /\ nextRequestId <= MaxRequests
  /\ nextRequestId' = nextRequestId + 1
  /\ LET r == nextRequestId
         connected == MapHas(slaves, slaveId)
                        /\ connState[MapGet(slaves, slaveId).ws] = "OPEN"
         call == [state |-> "draining", slaveId |-> slaveId,
                  ws |-> IF connected THEN MapGet(slaves, slaveId).ws ELSE 0,
                  method |-> method, headers |-> headers,
                  settles |-> 0, error |-> NoError, value |-> NoValue]
     IN IF ~connected
        THEN /\ req' = Settle([req EXCEPT ![r] = [call EXCEPT !.state = "waiting"]],
                            r, "rejected", "not connected")
             /\ UNCHANGED <<pendingRequests, reqTimer, toSlave>>
        ELSE IF method \in {"GET", "HEAD"}
        THEN SendHttpRequest([req EXCEPT ![r] = call], r)
        ELSE /\ req' = [req EXCEPT ![r] = call]
             /\ UNCHANGED <<pendingRequests, reqTimer, toSlave>>
  /\ UNCHANGED <<regVars, tunVars>>

\* forwardHttpRequest resumes once the request body has been read.
ForwardBodyRead(r) ==
  /\ req[r].state = "draining"
  /\ SendHttpRequest(req, r)
  /\ UNCHANGED <<nextRequestId, regVars, tunVars>>

\* The requestTimeout callback of request r.
RequestTimeout(r) ==
  /\ r \in reqTimer
  /\ reqTimer' = reqTimer \ {r}
  /\ pendingRequests' = pendingRequests \ {r}
  /\ req' = Settle(req, r, "rejected", "Request timeout")
  /\ UNCHANGED <<nextRequestId, regVars, tunVars, toSlave>>

CreateWsTunnel(slaveId, channel) ==
  /\ nextTunnelId <= MaxTunnels
  /\ MapHas(slaves, slaveId)
  /\ connState[MapGet(slaves, slaveId).ws] = "OPEN"
  /\ LET t == nextTunnelId
         slave == MapGet(slaves, slaveId)
     IN /\ tunnels' = MapSet(tunnels, t,
                             [id |-> t, slaveId |-> slaveId, channel |-> channel])
        /\ tunnelWs' = [tunnelWs EXCEPT ![t] = slave.ws]
        /\ userWs' = [userWs EXCEPT ![t] = "OPEN"]
        /\ toSlave' = WsSend(toSlave, slave.ws,
                             [type |-> "ws_tunnel_open", tunnelId |-> t,
                              channel |-> channel])
  /\ nextTunnelId' = nextTunnelId + 1
  /\ UNCHANGED <<userSent, userRecv, userBuffered, regVars, reqVars>>

\* createWsTunnel's localWs.on('message'): the user emits its next frame.
UserWsMessage(t) ==
  /\ userWs[t] \in {"OPEN", "CLOSING"}
  /\ userSent[t] < MaxFrames
  /\ userSent' = [userSent EXCEPT ![t] = @ + 1]
  /\ toSlave' = WsSend(toSlave, tunnelWs[t],
                       [type |-> "ws_message", tunnelId |-> t, data |-> userSent[t] + 1])
  /\ UNCHANGED <<tunnels, tunnelWs, userWs, userRecv, userBuffered, nextTunnelId>>
  /\ UNCHANGED <<regVars, reqVars>>

\* createWsTunnel's localWs.on('close').
UserWsClose(t) ==
  /\ userWs[t] \in {"OPEN", "CLOSING"}
  /\ userWs' = [userWs EXCEPT ![t] = "CLOSED"]
  /\ toSlave' = WsSend(toSlave, tunnelWs[t], [type |-> "ws_tunnel_close", tunnelId |-> t])
  /\ tunnels' = MapDelete(tunnels, t)
  /\ UNCHANGED <<tunnelWs, userSent, userRecv, userBuffered, nextTunnelId, regVars, reqVars>>

\* getSlaves: one entry per registry record, with the status of its socket.
getSlaves ==
  {[id |-> s.id, lastPing |-> s.lastPing,
    status |-> IF connState[s.ws] = "OPEN" THEN "connected" ELSE "disconnected"] :
     s \in slaves}

\* isSlaveConnected
isSlaveConnected(slaveId) ==
  MapHas(slaves, slaveId) /\ connState[MapGet(slaves, slaveId).ws] = "OPEN"

\* ------------------------------------------------ master: cluster routes
\* GET /api/cluster/status
GetClusterStatus ==
  LET mode == IF deploymentMode # "" THEN deploymentMode ELSE "standalone"
      list == IF tunnelManager THEN getSlaves ELSE {}
  IN clusterReply' =
       [route |-> "status", status |-> 200,
        body |-> [mode |-> mode, isMaster |-> (mode = "master"),
                  connectedSlaves |-> Cardinality(list),
                  slaves |-> {[id |-> x.id, status |-> x.status] : x \in list}]]

\* getSlave: the entry of one registry record; null when there is none.
NoSlaveInfo == [id |-> NoSlave, lastPing |-> 0 - 1, status |-> "none"]
getSlave(slaveId) ==
  IF ~MapHas(slaves, slaveId)
  THEN NoSlaveInfo
  ELSE LET slave == MapGet(slaves, slaveId)
       IN [id |-> slaveId, lastPing |-> slave.lastPing,
           status |-> IF connState[slave.ws] = "OPEN" THEN "connected"
                                                      ELSE "disconnected"]

\* The entry the routes synthesise for the master itself.
LocalClient ==
  [id |-> "local", status |-> "connected", isLocal |-> TRUE, lastPing |-> 0 - 1]

\* slaves.map(s => ({...s, isLocal: false}))
AsClient(s) ==
  [id |-> s.id, status |-> s.status, isLocal |-> FALSE, lastPing |-> s.lastPing]

\* The arrays getSlaves can return: the Map is walked in insertion order,
\* which the registry of the model does not record, so any order of its
\* entries.
SlaveLists ==
  {q \in UNION {[1..n -> getSlaves] : n \in {Cardinality(getSlaves)}} :
     \A i, j \in DOMAIN q : i # j => q[i] # q[j]}

\* The ids a client puts in /slaves/:id
ClusterIds == SlaveIds \cup {"local"}

NotInMasterMode(route, id) ==
  [route |-> route, id |-> id, status |-> 400,
   body |-> [error |-> "Not in master mode"]]

\* The /slaves route with the local entry appended instead of prepended.
GetClusterSlaves_LocalLast ==
  IF ~tunnelManager
  THEN clusterReply' = NotInMasterMode("slaves", "")
  ELSE \E list \in SlaveLists :
         clusterReply' =
           [route |-> "slaves", id |-> "", status |-> 200,
            body |-> [success |-> TRUE,
                      clients |-> [i \in 1..Len(list) |-> AsClient(list[i])]
                                    \o <<LocalClient>>]]

\* GET /api/cluster/slaves
GetClusterSlaves ==
  IF ~tunnelManager
  THEN clusterReply' = NotInMasterMode("slaves", "")
  ELSE \E list \in SlaveLists :
         clusterReply' =
           [route |-> "slaves", id |-> "", status |-> 200,
            body |-> [success |-> TRUE,
                      clients |-> <<LocalClient>>
                                    \o [i \in 1..Len(list) |-> AsClient(list[i])]]]

\* What /slaves/:id answers where a TunnelManager exists.
SlaveReply(id) ==
  IF id = "local"
  THEN [route |-> "slave", id |-> id, status |-> 200,
        body |-> [success |-> TRUE, client |-> LocalClient]]
  ELSE IF getSlave(id) = NoSlaveInfo
  THEN [route |-> "slave", id |-> id, status |-> 404,
        body |-> [error |-> "Slave not found", slaveId |-> id]]
  ELSE [route |-> "slave", id |-> id, status |-> 200,
        body |-> [success |-> TRUE, client |-> AsClient(getSlave(id))]]

\* The /slaves/:id route testing for "local" before it tests for the
\* TunnelManager.
GetClusterSlave_LocalFirst(id) ==
  clusterReply' = IF id # "local" /\ ~tunnelManager
                  THEN NotInMasterMode("slave", id)
                  ELSE SlaveReply(id)

\* GET /api/cluster/slaves/:id
GetClusterSlave(id) ==
  clusterReply' = IF ~tunnelManager
                  THEN NotInMasterMode("slave", id)
                  ELSE SlaveReply(id)

\* What /slaves/:id/health answers where a TunnelManager exists.
HealthReply(id) ==
  IF id = "local"
  THEN [route |-> "health", id |-> id, status |-> 200,
        body |-> [success |-> TRUE, healthy |-> TRUE, slaveId |-> "local",
                  status |-> "connected"]]
  ELSE IF getSlave(id) = NoSlaveInfo
  THEN [route |-> "health", id |-> id, status |-> 404,
        body |-> [error |-> "Slave not found", slaveId |-> id, healthy |-> FALSE]]
  ELSE [route |-> "health", id |-> id, status |-> 200,
        body |-> [success |-> TRUE, healthy |-> isSlaveConnected(id),
                  slaveId |-> id, status |-> getSlave(id).status]]

\* GET /api/cluster/slaves/:id/health
GetClusterSlaveHealth(id) ==
  clusterReply' = IF ~tunnelManager
                  THEN NotInMasterMode("health", id)
                  ELSE HealthReply(id)

\* ------------------------------------------ master: request-router middleware
\* JSON texts are modelled over the characters "0", "1", " " and "x": a JSON
\* number with optional white space around it parses, anything else throws.
JsonDigits == <<"0", "1", "2", "3", "4", "5", "6", "7", "8", "9">>
IsJsonWs(ch) == ch = " "
IsJsonDigit(ch) == \E d \in 1..10 : JsonDigits[d] = ch
DigitValue(ch) == (CHOOSE d \in 1..10 : JsonDigits[d] = ch) - 1

RECURSIVE TrimLeft(_)
TrimLeft(text) ==
  IF text # <<>> /\ IsJsonWs(Head(text)) THEN TrimLeft(Tail(text)) ELSE text

RECURSIVE TrimRight(_)
TrimRight(text) ==
  IF text # <<>> /\ IsJsonWs(text[Len(text)])
  THEN TrimRight(SubSeq(text, 1, Len(text) - 1))
  ELSE text

RECURSIVE DigitsToNat(_)
DigitsToNat(ds) ==
  IF ds = <<>> THEN 0
  ELSE 10 * DigitsToNat(SubSeq(ds, 1, Len(ds) - 1)) + DigitValue(ds[Len(ds)])

RECURSIVE NatToDigits(_)
NatToDigits(n) ==
  IF n < 10 THEN <<JsonDigits[n + 1]>>
  ELSE Append(NatToDigits(n \div 10), JsonDigits[(n % 10) + 1])

\* JSON.parse: ok is FALSE when it throws.
JSONparse(text) ==
  LET t == TrimRight(TrimLeft(text))
      number == /\ t # <<>>
                /\ \A i \in 1..Len(t) : IsJsonDigit(t[i])
                /\ (Len(t) > 1 => t[1] # "0")
  IN IF number THEN [ok |-> TRUE, value |-> DigitsToNat(t)]
     ELSE [ok |-> FALSE, value |-> 0]

\* JSON.stringify of a parsed value.
JSONstringify(value) == NatToDigits(value)

\* The bytes res.send / res.json write for a string.
RECURSIVE Utf8Encode(_)
Utf8Encode(str) ==
  IF str = <<>> THEN <<>>
  ELSE (IF Head(str) = "U+FFFD" THEN <<"EF", "BF", "BD">> ELSE <<Head(str)>>)
       \o Utf8Encode(Tail(str))

\* key.toLowerCase() on the header names in use.
ToLowerCase(key) ==
  CASE key = "Connection" -> "connection"
    [] key = "Transfer-Encoding" -> "transfer-encoding"
    [] key = "Content-Type" -> "content-type"
    [] OTHER -> key

\* The requests users send to the master (path as its segments).
RouterRequests ==
  { [method |-> "GET", path |-> <<"api", "projects">>,
     headers |-> [h \in {"accept", "x-target-slave"} |->
                    IF h = "x-target-slave" THEN "s1" ELSE "json"]],
    [method |-> "POST", path |-> <<"api", "projects">>,
     headers |-> [h \in {"accept", "host", "x-cluster-internal-auth", "x-target-slave"} |->
                    IF h = "x-target-slave" THEN "s1"
                    ELSE IF h = "host" THEN <<"master", 80>>
                    ELSE IF h = "x-cluster-internal-auth" THEN "forged" ELSE "json"]],
    [method |-> "GET", path |-> <<"api", "cluster", "status">>,
     headers |-> [h \in {"accept", "x-target-slave"} |->
                    IF h = "x-target-slave" THEN "s1" ELSE "json"]],
    [method |-> "GET", path |-> <<"api", "projects">>,
     headers |-> [h \in {"accept", "x-target-slave"} |->
                    IF h = "x-target-slave" THEN "s2" ELSE "json"]],
    [method |-> "GET", path |-> <<"api", "projects">>,
     headers |-> [h \in {"accept", "x-target-slave"} |->
                    IF h = "x-target-slave" THEN "local" ELSE "json"]],
    [method |-> "GET", path |-> <<"api", "projects">>,
     headers |-> [h \in {"accept"} |-> "json"]] }

NoRouterCall ==
  [state |-> "unused", target |-> NoSlave, path |-> <<>>, requestId |-> NoRequest,
   nexts |-> 0, writes |-> 0, status |-> 0, headers |-> <<>>, body |-> <<>>,
   error |-> NoError, slaveId |-> NoSlave, message |-> <<>>]

\* req.headers['x-target-slave']
TargetSlave(headers) ==
  IF "x-target-slave" \in DOMAIN headers THEN headers["x-target-slave"] ELSE NoSlave

\* res.status(status).json({error, slaveId, message})
ReplyError(call, status, error, slaveId, message) ==
  [call EXCEPT !.state = "done", !.writes = @ + 1, !.status = status,
               !.error = error, !.slaveId = slaveId, !.message = message]

\* The middleware as it would be without its isSlaveConnected test.
RouterRequest_NoConnectedTest(u) ==
  /\ nextCall <= MaxCalls
  /\ nextCall' = nextCall + 1
  /\ LET k == nextCall
         targetSlave == TargetSlave(u.headers)
         call == [NoRouterCall EXCEPT !.target = targetSlave, !.path = u.path]
     IN IF targetSlave = NoSlave \/ targetSlave = "local"
        THEN /\ calls' = [calls EXCEPT ![k] = [call EXCEPT !.state = "local",
                                                          !.nexts = @ + 1]]
             /\ UNCHANGED <<masterVars, toSlave>>
        ELSE /\ ForwardHttpRequest(targetSlave, u.method, u.headers)
             /\ calls' = [calls EXCEPT ![k] = [call EXCEPT !.state = "awaiting",
                                                          !.requestId = nextRequestId]]

\* The middleware as it would be if only an absent header meant local.
RouterRequest_LocalIsSlave(u) ==
  /\ nextCall <= MaxCalls
  /\ nextCall' = nextCall + 1
  /\ LET k == nextCall
         targetSlave == TargetSlave(u.headers)
         call == [NoRouterCall EXCEPT !.target = targetSlave, !.path = u.path]
     IN IF targetSlave = NoSlave
        THEN /\ calls' = [calls EXCEPT ![k] = [call EXCEPT !.state = "local",
                                                          !.nexts = @ + 1]]
             /\ UNCHANGED <<masterVars, toSlave>>
        ELSE IF ~isSlaveConnected(targetSlave)
        THEN /\ calls' = [calls EXCEPT ![k] =
                            ReplyError(call, ServiceUnavailable, "Slave not connected",
                                       targetSlave,
                                       <<"The target client", targetSlave,
                                         "is not currently connected">>)]
             /\ UNCHANGED <<masterVars, toSlave>>
        ELSE /\ ForwardHttpRequest(targetSlave, u.method, u.headers)
             /\ calls' = [calls EXCEPT ![k] = [call EXCEPT !.state = "awaiting",
                                                          !.requestId = nextRequestId]]

\* createRequestRouter's middleware, up to its await of forwardHttpRequest.
RouterRequest(u) ==
  /\ nextCall <= MaxCalls
  /\ nextCall' = nextCall + 1
  /\ LET k == nextCall
         targetSlave == TargetSlave(u.headers)
         call == [NoRouterCall EXCEPT !.target = targetSlave, !.path = u.path]
     IN IF targetSlave = NoSlave \/ targetSlave = "local"
        THEN /\ calls' = [calls EXCEPT ![k] = [call EXCEPT !.state = "local",
                                                          !.nexts = @ + 1]]
             /\ UNCHANGED <<masterVars, toSlave>>
        ELSE IF ~isSlaveConnected(targetSlave)
        THEN /\ calls' = [calls EXCEPT ![k] =
                            ReplyError(call, ServiceUnavailable, "Slave not connected",
                                       targetSlave,
                                       <<"The target client", targetSlave,
                                         "is not currently connected">>)]
             /\ UNCHANGED <<masterVars, toSlave>>
        ELSE /\ ForwardHttpRequest(targetSlave, u.method, u.headers)
             /\ calls' = [calls EXCEPT ![k] = [call EXCEPT !.state = "awaiting",
                                                          !.requestId = nextRequestId]]

\* The response the middleware writes for a resolved forward: headers but
\* transfer-encoding and connection, the status, and the body through res.json
\* when it parses as JSON, through res.send otherwise.
ReplyForwarded(call, response) ==
  LET parsed == JSONparse(response.body)
  IN [call EXCEPT
        !.state = "done", !.writes = @ + 1, !.status = response.status,
        !.headers = [h \in {key \in DOMAIN response.headers :
                              ToLowerCase(key) \notin {"transfer-encoding", "connection"}}
                       |-> response.headers[h]],
        !.body = IF parsed.ok THEN Utf8Encode(JSONstringify(parsed.value))
                 ELSE Utf8Encode(response.body)]

\* The middleware's continuation as it would be if its catch replied as the
\* connectivity test does.
RouterResume_Catch503(k) ==
  /\ calls[k].state = "awaiting"
  /\ req[calls[k].requestId].state \in {"resolved", "rejected"}
  /\ LET r == calls[k].requestId
     IN calls' = [calls EXCEPT ![k] =
          IF req[r].state = "rejected"
          THEN ReplyError(@, ServiceUnavailable, "Slave not connected", @.target,
                          <<req[r].error>>)
          ELSE IF req[r].value.headers = NoHeaders
          THEN ReplyError(@, BadGateway, "Tunnel error", @.target,
                          <<"Cannot convert undefined or null to object">>)
          ELSE ReplyForwarded(@, req[r].value)]
  /\ UNCHANGED <<nextCall, masterVars, toSlave>>

\* The middleware resumes when forwardHttpRequest's promise has settled.
RouterResume(k) ==
  /\ calls[k].state = "awaiting"
  /\ req[calls[k].requestId].state \in {"resolved", "rejected"}
  /\ LET r == calls[k].requestId
     IN calls' = [calls EXCEPT ![k] =
          IF req[r].state = "rejected"
          THEN ReplyError(@, BadGateway, "Tunnel error", @.target, <<req[r].error>>)
          ELSE IF req[r].value.headers = NoHeaders
          THEN ReplyError(@, BadGateway, "Tunnel error", @.target,
                          <<"Cannot convert undefined or null to object">>)
          ELSE ReplyForwarded(@, req[r].value)]
  /\ UNCHANGED <<nextCall, masterVars, toSlave>>

\* ------------------------------------------------------ slave: TunnelClient
\* Each handler below fixes the client's variables and toMaster; the action that
\* delivers the event fixes the rest.

SlaveId == "s1"

\* this.send: goes out on this.ws when that socket is OPEN (ps: the readyStates
\* as the handler has left them); lost when the master's end is gone.
ClientSend(q, ps, frame) ==
  IF clientWs # 0 /\ ps[clientWs] = "OPEN" /\ connState[clientWs] # "CLOSED"
  THEN [q EXCEPT ![clientWs] = Append(@, frame)]
  ELSE q

\* The constructor's reconnection settings, and the jitters Math.random() * 1000
\* can give (the ends of [0, 1000), in whole ms).
BaseDelay == 5000
MaxDelay == 60000
Jitters == {0, 999}

Min(a, b) == IF a <= b THEN a ELSE b

\* Math.pow(2, n)
RECURSIVE Pow2(_)
Pow2(n) == IF n = 0 THEN 1 ELSE 2 * Pow2(n - 1)

\* scheduleReconnect as it would be with the counter incremented before the
\* delay is computed.
ScheduleReconnect_IncrementFirst(jitter) ==
  /\ reconnectDelay' = Min(BaseDelay * Pow2(reconnectAttempts + 1), MaxDelay) + jitter
  /\ reconnectAttempts' = reconnectAttempts + 1
  /\ reconnectTimer' = TRUE

\* scheduleReconnect as it would be without the cap.
ScheduleReconnect_NoCap(jitter) ==
  /\ reconnectDelay' = BaseDelay * Pow2(reconnectAttempts) + jitter
  /\ reconnectAttempts' = reconnectAttempts + 1
  /\ reconnectTimer' = TRUE

\* scheduleReconnect: an armed timer is cleared, the delay computed from the
\* counter, the counter incremented and the timer armed.
ScheduleReconnect(jitter) ==
  /\ reconnectDelay' = Min(BaseDelay * Pow2(reconnectAttempts), MaxDelay) + jitter
  /\ reconnectAttempts' = reconnectAttempts + 1
  /\ reconnectTimer' = TRUE

\* connect: a new WebSocket to the master replaces this.ws (masterUrl is a
\* well-formed ws URL, so the constructor does not throw).
Connect ==
  /\ nextConn \in Dials
  /\ clientWs' = nextConn
  /\ peerState' = [peerState EXCEPT ![nextConn] = "CONNECTING"]
  /\ nextConn' = nextConn + 1

\* start
Start ==
  /\ ~started
  /\ started' = TRUE
  /\ Connect
  /\ UNCHANGED <<authenticated, reconnectAttempts, reconnectTimer, reconnectDelay, pingInterval,
                 localTunnels, localWs, localConn, localSent, localRecv, toMaster>>

\* The reconnectTimer callback.
ReconnectTimerFire ==
  /\ reconnectTimer
  /\ reconnectTimer' = FALSE
  /\ reconnectDelay' = 0
  /\ Connect
  /\ UNCHANGED <<started, authenticated, reconnectAttempts, pingInterval,
                 localTunnels, localWs, localConn, localSent, localRecv, toMaster>>

\* connect's ws.on('open'), with authenticate.
OnOpen(c) ==
  /\ peerState[c] = "CONNECTING"
  /\ peerState' = [peerState EXCEPT ![c] = "OPEN"]
  /\ toMaster' = ClientSend(toMaster, peerState',
                            [type |-> "auth", slaveId |-> SlaveId, secret |-> Secret])
  /\ UNCHANGED <<started, clientWs, authenticated, reconnectAttempts, reconnectTimer, reconnectDelay,
                 pingInterval, localTunnels, localWs, localConn, localSent, localRecv>>

\* The close handler as it would be if it gave up after three attempts.
OnClientClose_GiveUp(c) ==
  /\ peerState[c] \in {"CONNECTING", "OPEN", "CLOSING"}
  /\ peerState' = [peerState EXCEPT ![c] = "CLOSED"]
  /\ authenticated' = FALSE
  /\ pingInterval' = FALSE
  /\ localWs' = [t \in TunnelIds |->
                   IF t \in localTunnels /\ localWs[t] = "OPEN" THEN "CLOSING"
                   ELSE localWs[t]]
  /\ localTunnels' = {}
  /\ IF reconnectAttempts < 3
     THEN \E jitter \in Jitters : ScheduleReconnect(jitter)
     ELSE UNCHANGED <<reconnectTimer, reconnectDelay, reconnectAttempts>>
  /\ UNCHANGED <<started, clientWs, localConn, localSent, localRecv, toMaster>>

\* connect's ws.on('close'), also emitted when the dial fails: stopPing,
\* cleanupTunnels, scheduleReconnect.
OnClientClose(c) ==
  /\ peerState[c] \in {"CONNECTING", "OPEN", "CLOSING"}
  /\ peerState' = [peerState EXCEPT ![c] = "CLOSED"]
  /\ authenticated' = FALSE
  /\ pingInterval' = FALSE
  /\ localWs' = [t \in TunnelIds |->
                   IF t \in localTunnels /\ localWs[t] = "OPEN" THEN "CLOSING"
                   ELSE localWs[t]]
  /\ localTunnels' = {}
  /\ \E jitter \in Jitters : ScheduleReconnect(jitter)
  /\ UNCHANGED <<started, clientWs, localConn, localSent, localRecv, toMaster>>

\* handleAuthSuccess as it would be without the reset of the counter.
HandleAuthSuccess_NoReset(m) ==
  /\ authenticated' = TRUE
  /\ pingInterval' = TRUE
  /\ UNCHANGED <<started, clientWs, peerState, reconnectAttempts, reconnectTimer,
                 reconnectDelay, localTunnels, localWs, localConn, localSent, localRecv,
                 toMaster>>

HandleAuthSuccess(m) ==
  /\ authenticated' = TRUE
  /\ reconnectAttempts' = 0
  /\ pingInterval' = TRUE
  /\ UNCHANGED <<started, clientWs, peerState, reconnectTimer, reconnectDelay, localTunnels, localWs,
                 localConn, localSent, localRecv, toMaster>>

\* handleWsTunnelOpen: a local WebSocket is created, and enters
\* this.localTunnels when it opens; or its construction throws and the catch
\* reports an error frame carrying the tunnelId.
HandleWsTunnelOpen(c, m) ==
  \/ /\ localWs' = [localWs EXCEPT ![m.tunnelId] = "CONNECTING"]
     /\ localConn' = [localConn EXCEPT ![m.tunnelId] = c]
     /\ UNCHANGED <<started, clientWs, peerState, authenticated, reconnectAttempts,
                    reconnectTimer, reconnectDelay, pingInterval, localTunnels, localSent, localRecv,
                    toMaster>>
  \/ /\ toMaster' = ClientSend(toMaster, peerState,
                               [type |-> "error", requestId |-> NoRequest,
                                tunnelId |-> m.tunnelId, error |-> "open failed"])
     /\ UNCHANGED clientVars

HandleWsMessage(m) ==
  /\ IF m.tunnelId \in localTunnels /\ localWs[m.tunnelId] = "OPEN"
     THEN localRecv' = [localRecv EXCEPT ![m.tunnelId] = Append(@, m.data)]
     ELSE UNCHANGED localRecv
  /\ UNCHANGED <<started, clientWs, peerState, authenticated, reconnectAttempts,
                 reconnectTimer, reconnectDelay, pingInterval, localTunnels, localWs, localConn,
                 localSent, toMaster>>

HandleWsTunnelClose(m) ==
  /\ IF m.tunnelId \in localTunnels
     THEN /\ localWs' = [localWs EXCEPT ![m.tunnelId] =
                           IF @ = "OPEN" THEN "CLOSING" ELSE @]
          /\ localTunnels' = localTunnels \ {m.tunnelId}
     ELSE UNCHANGED <<localWs, localTunnels>>
  /\ UNCHANGED <<started, clientWs, peerState, authenticated, reconnectAttempts,
                 reconnectTimer, reconnectDelay, pingInterval, localConn, localSent, localRecv,
                 toMaster>>

\* The local service's port, and the headers forwardToLocal puts on every call.
LocalPort == 3001
LocalHost == <<"localhost", LocalPort>>
NoLocalCall == [state |-> "unused", method |-> "GET", headers |-> <<>>,
                status |-> 0, body |-> <<>>]

\* forwardToLocal's request options as they would be with the forwarded headers
\* spread last.
LocalRequestHeaders_ForwardedWin(headers) ==
  [h \in DOMAIN headers \cup {"host", "x-cluster-internal-auth"} |->
     IF h \in DOMAIN headers THEN headers[h]
     ELSE IF h = "host" THEN LocalHost ELSE Secret]

\* forwardToLocal's request options: the forwarded headers, overridden by host
\* and x-cluster-internal-auth.
LocalRequestHeaders(headers) ==
  [h \in DOMAIN headers \cup {"host", "x-cluster-internal-auth"} |->
     IF h = "host" THEN LocalHost
     ELSE IF h = "x-cluster-internal-auth" THEN Secret
     ELSE headers[h]]

\* Buffer.toString('utf-8'): each byte that is not valid UTF-8 decodes to U+FFFD.
Utf8Decode(bytes) ==
  [i \in DOMAIN bytes |-> IF bytes[i] = "FF" THEN "U+FFFD" ELSE bytes[i]]

\* handleHttpRequest up to the await: forwardToLocal issues the local call.
HandleHttpRequest(m) ==
  /\ localHttp' = [localHttp EXCEPT ![m.requestId] =
                     [state |-> "inflight", method |-> m.method,
                      headers |-> LocalRequestHeaders(m.headers),
                      status |-> 0, body |-> <<>>]]
  /\ UNCHANGED <<clientVars, toMaster>>

\* forwardToLocal's res.on('end'), and handleHttpRequest resuming with the
\* response: the local service answered status and body (bytes).
LocalHttpEnd(r, status, headers, body) ==
  LET frame == [type |-> "response", requestId |-> r, status |-> status,
                headers |-> headers, body |-> Utf8Decode(body), error |-> NoError]
  IN /\ localHttp[r].state = "inflight"
     /\ localHttp' = [localHttp EXCEPT ![r] =
                        [@ EXCEPT !.state = "answered", !.status = status,
                                  !.body = body]]
     /\ toMaster' = ClientSend(toMaster, peerState, frame)
     /\ UNCHANGED clientVars

\* The catch of handleHttpRequest as it would be if it only logged.
LocalHttpError_Silent(r, error) ==
  /\ localHttp[r].state = "inflight"
  /\ localHttp' = [localHttp EXCEPT ![r] = [@ EXCEPT !.state = "failed"]]
  /\ UNCHANGED <<clientVars, toMaster>>

\* forwardToLocal's req.on('error') or its 30-second timeout, and
\* handleHttpRequest's catch.
LocalHttpError(r, error) ==
  LET frame == [type |-> "response", requestId |-> r, status |-> 0,
                headers |-> NoHeaders, body |-> <<>>, error |-> error]
  IN /\ localHttp[r].state = "inflight"
     /\ localHttp' = [localHttp EXCEPT ![r] = [@ EXCEPT !.state = "failed"]]
     /\ toMaster' = ClientSend(toMaster, peerState, frame)
     /\ UNCHANGED clientVars

\* handleMessage, for a frame received on connection c.
HandleMessage(c, m) ==
  CASE m.type = "auth_success" -> HandleAuthSuccess(m) /\ UNCHANGED localHttp
    [] m.type = "http_request" -> HandleHttpRequest(m)
    [] m.type = "ws_tunnel_open" -> HandleWsTunnelOpen(c, m) /\ UNCHANGED localHttp
    [] m.type = "ws_message" -> HandleWsMessage(m) /\ UNCHANGED localHttp
    [] m.type = "ws_tunnel_close" -> HandleWsTunnelClose(m) /\ UNCHANGED localHttp
    [] OTHER -> UNCHANGED <<clientVars, toMaster, localHttp>>

\* connect's ws.on('message') for data received on connection c: a text that
\* JSON.parse rejects is logged by the catch, anything else goes to handleMessage.
OnClientMessage(c, m) ==
  IF m.type = "malformed"
  THEN UNCHANGED <<clientVars, toMaster, localHttp>>
  ELSE HandleMessage(c, m)

\* handleWsTunnelOpen's localWs.on('open').
OnLocalOpen(t) ==
  /\ localWs[t] = "CONNECTING"
  /\ localWs' = [localWs EXCEPT ![t] = "OPEN"]
  /\ localTunnels' = localTunnels \cup {t}
  /\ UNCHANGED <<started, clientWs, peerState, authenticated, reconnectAttempts,
                 reconnectTimer, reconnectDelay, pingInterval, localConn, localSent, localRecv,
                 toMaster>>

\* handleWsTunnelOpen's localWs.on('message'): the local service emits its next frame.
OnLocalMessage(t) ==
  /\ localWs[t] \in {"OPEN", "CLOSING"}
  /\ localSent[t] < MaxFrames
  /\ localSent' = [localSent EXCEPT ![t] = @ + 1]
  /\ toMaster' = ClientSend(toMaster, peerState,
                            [type |-> "ws_data", tunnelId |-> t, data |-> localSent[t] + 1])
  /\ UNCHANGED <<started, clientWs, peerState, authenticated, reconnectAttempts,
                 reconnectTimer, reconnectDelay, pingInterval, localTunnels, localWs, localConn,
                 localRecv>>

\* handleWsTunnelOpen's localWs.on('close').
OnLocalClose(t) ==
  /\ localWs[t] \in {"CONNECTING", "OPEN", "CLOSING"}
  /\ localWs' = [localWs EXCEPT ![t] = "CLOSED"]
  /\ localTunnels' = localTunnels \ {t}
  /\ toMaster' = ClientSend(toMaster, peerState,
                            [type |-> "ws_tunnel_closed", tunnelId |-> t])
  /\ UNCHANGED <<started, clientWs, peerState, authenticated, reconnectAttempts,
                 reconnectTimer, reconnectDelay, pingInterval, localConn, localSent, localRecv>>

\* The pingInterval callback.
PingTick ==
  /\ pingInterval
  /\ toMaster' = ClientSend(toMaster, peerState, [type |-> "ping", timestamp |-> 1])
  /\ UNCHANGED clientVars

\* stop(): clears the reconnect timer, stopPing, cleanupTunnels, closes this.ws
\* and forgets it. close() on a socket that is connecting or open leaves it
\* closing; its 'close' event comes later and runs the handler connect()
\* attached.
Stop ==
  /\ started
  /\ started' = FALSE
  /\ reconnectTimer' = FALSE
  /\ reconnectDelay' = 0
  /\ pingInterval' = FALSE
  /\ localWs' = [t \in TunnelIds |->
                   IF t \in localTunnels /\ localWs[t] = "OPEN" THEN "CLOSING"
                   ELSE localWs[t]]
  /\ localTunnels' = {}
  /\ peerState' = IF clientWs # 0 /\ peerState[clientWs] \in {"CONNECTING", "OPEN"}
                  THEN [peerState EXCEPT ![clientWs] = "CLOSING"]
                  ELSE peerState
  /\ clientWs' = 0
  /\ authenticated' = FALSE
  /\ UNCHANGED <<reconnectAttempts, localConn, localSent, localRecv, toMaster>>

\* ------------------------------------------------------ browser: api.js
\* localStorage.getItem answers null for an item that was never set.
NoItem == "(null)"

\* getSelectedClientId: the stored id, 'local' when it is null or empty.
getSelectedClientId(stored) ==
  IF stored = NoItem \/ stored = "" THEN "local" ELSE stored

\* String.prototype.startsWith, on strings cut in pieces that never straddle
\* the end of a prefix.
StartsWith(str, prefix) ==
  /\ Len(str) >= Len(prefix)
  /\ SubSeq(str, 1, Len(prefix)) = prefix

\* '/api/cluster/', '/api/user/', '/api/auth/'
MasterOnlyPrefixes ==
  {<<"/api", "/cluster", "/">>, <<"/api", "/user", "/">>, <<"/api", "/auth", "/">>}

\* The URLs the application passes, and some that only resemble the prefixes.
FetchUrls ==
  {<<"/api", "/cluster", "/", "slaves">>, <<"/api", "/user", "/", "git-config">>,
   <<"/api", "/auth", "/", "user">>, <<"/api", "/projects">>,
   <<"/api", "/cluster">>, <<"/api", "/user", "s">>, <<"/api", "/auth", "?x">>,
   <<"/ws", "/api", "/cluster", "/">>}

\* options: whether body is a FormData, and options.headers as name-value
\* pairs.
FetchOptions ==
  {[formData |-> f, headers |-> h] :
     f \in BOOLEAN,
     h \in {{}, {<<"Content-Type", "text/plain">>}, {<<"X-Target-Slave", "s2">>}}}

\* {...a, ...b} on header objects
SpreadHeaders(a, b) ==
  {x \in a : \A y \in b : y[1] # x[1]} \cup b

\* fetchCall before any call: the arguments authenticatedFetch was given,
\* the URL and headers it passed to fetch, whether credentials is 'include'.
NoFetch ==
  [args |-> [url |-> <<>>, options |-> [formData |-> FALSE, headers |-> {}]],
   url |-> <<>>, defaultHeaders |-> {}, headers |-> {}, include |-> FALSE]

\* authenticatedFetch as it would be without the test for '/api/auth/'.
authenticatedFetch_NoAuthPrefix(url, options, isPlatform, token, capacitor) ==
  LET selected == getSelectedClientId(selectedClient)
      defaultHeaders ==
        (IF ~options.formData THEN {<<"Content-Type", "application/json">>} ELSE {})
        \cup (IF ~isPlatform /\ token # NoItem /\ token # ""
              THEN {<<"Authorization", <<"Bearer ", token>> >>} ELSE {})
        \cup (IF /\ ~StartsWith(url, <<"/api", "/cluster", "/">>)
                 /\ ~StartsWith(url, <<"/api", "/user", "/">>)
                 /\ selected # "local"
              THEN {<<"X-Target-Slave", selected>>} ELSE {})
  IN fetchCall' = [args |-> [url |-> url, options |-> options],
                   url |-> IF capacitor THEN <<"https://code.zaneleo.top">> \o url
                           ELSE url,
                   defaultHeaders |-> defaultHeaders,
                   headers |-> SpreadHeaders(defaultHeaders, options.headers),
                   include |-> capacitor]

\* authenticatedFetch(url, options), with import.meta.env.VITE_IS_PLATFORM,
\* the 'auth-token' item of localStorage and isCapacitor() as further inputs.
authenticatedFetch(url, options, isPlatform, token, capacitor) ==
  LET selected == getSelectedClientId(selectedClient)
      defaultHeaders ==
        (IF ~options.formData THEN {<<"Content-Type", "application/json">>} ELSE {})
        \cup (IF ~isPlatform /\ token # NoItem /\ token # ""
              THEN {<<"Authorization", <<"Bearer ", token>> >>} ELSE {})
        \cup (IF /\ ~StartsWith(url, <<"/api", "/cluster", "/">>)
                 /\ ~StartsWith(url, <<"/api", "/user", "/">>)
                 /\ ~StartsWith(url, <<"/api", "/auth", "/">>)
                 /\ selected # "local"
              THEN {<<"X-Target-Slave", selected>>} ELSE {})
  IN fetchCall' = [args |-> [url |-> url, options |-> options],
                   url |-> IF capacitor THEN <<"https://code.zaneleo.top">> \o url
                           ELSE url,
                   defaultHeaders |-> defaultHeaders,
                   headers |-> SpreadHeaders(defaultHeaders, options.headers),
                   include |-> capacitor]

\* selectClient persists the id the user picked; a page outside master mode
\* resets it to 'local'; the user agent may clear the item.
StoredClients == {NoItem, "", "local"} \cup SlaveIds
SelectClient(id) ==
  /\ selectedClient # id
  /\ selectedClient' = id

\* ------------------------------------------------------------ environment
\* The ping frames a peer can send (timestamp: the peer's Date.now()).
PingFrames == {[type |-> "ping", timestamp |-> ts] : ts \in {1, 2}}

QueueRoom == \A c \in Conns : Len(toSlave[c]) < MaxQueue
Receiving(c) == connState[c] \in {"OPEN", "CLOSING"}

\* A peer dials /cluster/tunnel and the master accepts it.
PeerConnect ==
  /\ nextConn <= MaxConns
  /\ HandleConnection(nextConn)
  /\ nextConn' = nextConn + 1
  /\ UNCHANGED <<toMaster, clientVars, httpVars>>

\* The peer of connection c sends a frame of its choice; the master handles it.
PeerAuth(c) ==
  /\ Receiving(c) /\ QueueRoom
  /\ \E id \in SlaveIds \cup {NoSlave}, secret \in Secrets :
       OnMessage(c, [type |-> "auth", slaveId |-> id, secret |-> secret])
  /\ UNCHANGED <<toMaster, nextConn, clientVars, httpVars>>

PeerResponse(c) ==
  /\ Receiving(c)
  /\ \E r \in RequestIds, e \in {NoError, "local error"} :
       OnMessage(c, [type |-> "response", requestId |-> r, status |-> 200,
                     headers |-> NoHeaders, body |-> <<>>, error |-> e])
  /\ UNCHANGED <<toMaster, nextConn, clientVars, httpVars>>

PeerError(c) ==
  /\ Receiving(c)
  /\ \E r \in RequestIds \cup {NoRequest}, e \in {NoError, "local error"} :
       OnMessage(c, [type |-> "error", requestId |-> r, error |-> e])
  /\ UNCHANGED <<toMaster, nextConn, clientVars, httpVars>>

PeerWsData(c) ==
  /\ Receiving(c)
  /\ \E t \in TunnelIds, d \in 1..MaxFrames :
       /\ Len(userRecv[t]) < MaxFrames
       /\ OnMessage(c, [type |-> "ws_data", tunnelId |-> t, data |-> d])
  /\ UNCHANGED <<toMaster, nextConn, clientVars, httpVars>>

PeerWsTunnelClosed(c) ==
  /\ Receiving(c)
  /\ \E t \in TunnelIds : OnMessage(c, [type |-> "ws_tunnel_closed", tunnelId |-> t])
  /\ UNCHANGED <<toMaster, nextConn, clientVars, httpVars>>

PeerPing(c) ==
  /\ Receiving(c) /\ QueueRoom
  /\ \A s \in slaves : s.lastPing < MaxPings
  /\ \E m \in PingFrames : OnMessage(c, m)
  /\ UNCHANGED <<toMaster, nextConn, clientVars, httpVars>>

PeerGarbage(c) ==
  /\ Receiving(c)
  /\ \E ty \in {"malformed", "unknown"} : OnMessage(c, [type |-> ty])
  /\ UNCHANGED <<toMaster, nextConn, clientVars, httpVars>>

\* The peer reads the next frame the master sent it.
PeerConsume(c) ==
  /\ toSlave[c] # <<>>
  /\ toSlave' = [toSlave EXCEPT ![c] = Tail(@)]
  /\ UNCHANGED <<masterVars, toMaster, nextConn, clientVars, httpVars>>

\* The master's side of connection c sees the connection closed.
MasterConnClosed(c) ==
  /\ OnClose(c)
  /\ toMaster' = [toMaster EXCEPT ![c] = <<>>]
  /\ UNCHANGED <<nextConn, clientVars, httpVars>>

MasterAuthTimer(c) == AuthTimerFire(c) /\ UNCHANGED <<chanVars, clientVars, httpVars>>

UserHttpRequest ==
  /\ QueueRoom
  /\ \E s \in SlaveIds, u \in UserRequests : ForwardHttpRequest(s, u.method, u.headers)
  /\ UNCHANGED <<toMaster, nextConn, clientVars, httpVars>>

UserBodyRead(r) == QueueRoom /\ ForwardBodyRead(r) /\ UNCHANGED <<toMaster, nextConn, clientVars, httpVars>>

MasterRequestTimeout(r) == RequestTimeout(r) /\ UNCHANGED <<toMaster, nextConn, clientVars, httpVars>>

UserOpensTunnel ==
  /\ QueueRoom
  /\ \E s \in SlaveIds, ch \in Channels : CreateWsTunnel(s, ch)
  /\ UNCHANGED <<toMaster, nextConn, clientVars, httpVars>>

UserSendsFrame(t) == QueueRoom /\ UserWsMessage(t) /\ UNCHANGED <<toMaster, nextConn, clientVars, httpVars>>

\* The user's connection takes the oldest frame out of the write buffer.
UserSocketDrains(t) ==
  /\ userWs[t] \in {"OPEN", "CLOSING"}
  /\ userBuffered[t] > 0
  /\ userBuffered' = [userBuffered EXCEPT ![t] = @ - 1]
  /\ UNCHANGED <<tunnels, tunnelWs, userWs, userSent, userRecv, nextTunnelId>>
  /\ UNCHANGED <<regVars, reqVars, chanVars, clientVars, httpVars>>

UserSocketClosed(t) == QueueRoom /\ UserWsClose(t) /\ UNCHANGED <<toMaster, nextConn, clientVars, httpVars>>

\* ------------------------------------------ master and slave, end to end
MasterRoom == \A c \in Conns : Len(toMaster[c]) < MaxQueue

ClientStart == Start /\ UNCHANGED <<masterVars, toSlave, httpVars>>

\* The reconnect timer fires; the master has room for the connection.
ClientReconnect ==
  /\ nextConn \in Conns
  /\ ReconnectTimerFire
  /\ UNCHANGED <<masterVars, toSlave, httpVars>>

\* The master accepts a connection the client dialled.
MasterAccept(c) ==
  /\ peerState[c] = "CONNECTING"
  /\ HandleConnection(c)
  /\ UNCHANGED <<toMaster, nextConn, clientVars, httpVars>>

ClientOpen(c) ==
  /\ connState[c] # "unused"
  /\ MasterRoom
  /\ OnOpen(c)
  /\ UNCHANGED <<masterVars, toSlave, nextConn, httpVars>>

\* The client's side of connection c sees the connection closed, or the dial fail.
ClientConnClosed(c) ==
  /\ OnClientClose(c)
  /\ toSlave' = [toSlave EXCEPT ![c] = <<>>]
  /\ UNCHANGED <<masterVars, nextConn, httpVars>>

\* The master reads the next frame of connection c.
MasterRecv(c) ==
  /\ Receiving(c) /\ QueueRoom
  /\ toMaster[c] # <<>>
  /\ OnMessage(c, Head(toMaster[c]))
  /\ toMaster' = [toMaster EXCEPT ![c] = Tail(@)]
  /\ UNCHANGED <<nextConn, clientVars, httpVars>>

\* The client reads the next frame of connection c.
ClientRecv(c) ==
  /\ peerState[c] \in {"OPEN", "CLOSING"}
  /\ toSlave[c] # <<>>
  /\ OnClientMessage(c, Head(toSlave[c]))
  /\ toSlave' = [toSlave EXCEPT ![c] = Tail(@)]
  /\ UNCHANGED <<masterVars, nextConn, routerVars, clusterVars, uiVars>>

ClientPing ==
  /\ MasterRoom
  /\ clientWs # 0 /\ peerState[clientWs] = "OPEN"
  /\ \A s \in slaves : s.lastPing < MaxPings
  /\ PingTick
  /\ UNCHANGED <<masterVars, toSlave, nextConn, httpVars>>

LocalSocketOpens(t) == OnLocalOpen(t) /\ UNCHANGED <<masterVars, toSlave, nextConn, httpVars>>

LocalSendsFrame(t) ==
  MasterRoom /\ OnLocalMessage(t) /\ UNCHANGED <<masterVars, toSlave, nextConn, httpVars>>

LocalSocketClosed(t) ==
  MasterRoom /\ OnLocalClose(t) /\ UNCHANGED <<masterVars, toSlave, nextConn, httpVars>>

\* ------------------------------- master and slave, the control connection
\* The reconnect timer fires, whether or not the master can be reached.
ClientRedial == ReconnectTimerFire /\ UNCHANGED <<masterVars, toSlave, httpVars>>

\* A dial that the master never accepted fails: the client's WebSocket emits close.
ClientDialFails(d) ==
  /\ d \notin Conns
  /\ OnClientClose(d)
  /\ UNCHANGED <<masterVars, toSlave, nextConn, httpVars>>

\* The process that runs the client calls stop(); it may call start() again.
ClientStop == Stop /\ UNCHANGED <<masterVars, chanVars, httpVars>>

\* The client receives, on connection c, data that is not a frame of the protocol.
ClientGarbage(c) ==
  /\ peerState[c] \in {"OPEN", "CLOSING"}
  /\ \E ty \in {"malformed", "unknown"} : OnClientMessage(c, [type |-> ty])
  /\ UNCHANGED <<masterVars, toSlave, nextConn, routerVars, clusterVars, uiVars>>

\* ------------------------------------- master and slave, forwarding HTTP
\* What the slave's local service answers.
LocalResponseHeaders ==
  [h \in {"content-type", "connection"} |->
     IF h = "connection" THEN "keep-alive" ELSE "text/plain"]
LocalAnswers ==
  { [status |-> 200, body |-> <<"1">>],
    [status |-> 200, body |-> <<"1", " ">>],
    [status |-> 404, body |-> <<"x">>] }

UserRequest ==
  /\ QueueRoom
  /\ \E u \in RouterRequests : RouterRequest(u)
  /\ UNCHANGED <<toMaster, nextConn, clientVars, localHttp, clusterVars, uiVars>>

UserReply(k) ==
  RouterResume(k) /\ UNCHANGED <<toMaster, nextConn, clientVars, localHttp, clusterVars, uiVars>>

LocalServiceAnswers(r) ==
  /\ MasterRoom
  /\ \E a \in LocalAnswers : LocalHttpEnd(r, a.status, LocalResponseHeaders, a.body)
  /\ UNCHANGED <<masterVars, toSlave, nextConn, routerVars, clusterVars, uiVars>>

LocalServiceFails(r) ==
  /\ MasterRoom
  /\ \E e \in {"ECONNREFUSED", "Request timeout"} : LocalHttpError(r, e)
  /\ UNCHANGED <<masterVars, toSlave, nextConn, routerVars, clusterVars, uiVars>>

\* A client requests GET /api/cluster/status.
UserGetsStatus ==
  /\ GetClusterStatus
  /\ UNCHANGED <<masterVars, chanVars, clientVars, routerVars, localHttp,
                 tunnelManager, deploymentMode, uiVars>>

\* A client requests GET /api/cluster/slaves.
UserGetsSlaves ==
  /\ GetClusterSlaves
  /\ UNCHANGED <<masterVars, chanVars, clientVars, routerVars, localHttp,
                 tunnelManager, deploymentMode, uiVars>>

\* A client requests GET /api/cluster/slaves/:id.
UserGetsSlave(id) ==
  /\ GetClusterSlave(id)
  /\ UNCHANGED <<masterVars, chanVars, clientVars, routerVars, localHttp,
                 tunnelManager, deploymentMode, uiVars>>

\* A client requests GET /api/cluster/slaves/:id/health.
UserGetsHealth(id) ==
  /\ GetClusterSlaveHealth(id)
  /\ UNCHANGED <<masterVars, chanVars, clientVars, routerVars, localHttp,
                 tunnelManager, deploymentMode, uiVars>>

\* ------------------------------------------------------------------- specs
NoCall == [state |-> "unused", slaveId |-> NoSlave, ws |-> 0, method |-> "GET",
           headers |-> <<>>, settles |-> 0, error |-> NoError, value |-> NoValue]

\* What a cluster route has written before any request.
NoClusterReply == [route |-> "none", status |-> 0, body |-> [none |-> TRUE]]

\* The tunnel fabric and the HTTP side after construction.
InitFabric ==
  /\ connState = [c \in Conns |-> "unused"]
  /\ connAuthenticated = [c \in Conns |-> FALSE]
  /\ connSlaveId = [c \in Conns |-> NoSlave]
  /\ authTimer = {}
  /\ closeCode = [c \in Conns |-> 0]
  /\ slaves = {}
  /\ pendingRequests = {}
  /\ reqTimer = {}
  /\ req = [r \in RequestIds |-> NoCall]
  /\ nextRequestId = 1
  /\ tunnels = {}
  /\ tunnelWs = [t \in TunnelIds |-> 0]
  /\ userWs = [t \in TunnelIds |-> "unused"]
  /\ userSent = [t \in TunnelIds |-> 0]
  /\ userRecv = [t \in TunnelIds |-> <<>>]
  /\ userBuffered = [t \in TunnelIds |-> 0]
  /\ nextTunnelId = 1
  /\ nextConn = 1
  /\ toSlave = [c \in Conns |-> <<>>]
  /\ toMaster = [c \in Conns |-> <<>>]
  /\ started = FALSE
  /\ clientWs = 0
  /\ peerState = [c \in Dials |-> "unused"]
  /\ authenticated = FALSE
  /\ reconnectAttempts = 0
  /\ reconnectTimer = FALSE
  /\ reconnectDelay = 0
  /\ pingInterval = FALSE
  /\ localTunnels = {}
  /\ localWs = [t \in TunnelIds |-> "unused"]
  /\ localConn = [t \in TunnelIds |-> 0]
  /\ localSent = [t \in TunnelIds |-> 0]
  /\ localRecv = [t \in TunnelIds |-> <<>>]
  /\ localHttp = [r \in RequestIds |-> NoLocalCall]
  /\ calls = [k \in CallIds |-> NoRouterCall]
  /\ nextCall = 1
  /\ clusterReply = NoClusterReply
  /\ selectedClient = NoItem
  /\ fetchCall = NoFetch

\* A master: the TunnelManager exists and DEPLOYMENT_MODE is master.
Init ==
  /\ InitFabric
  /\ tunnelManager = TRUE
  /\ deploymentMode = "master"

\* Any deployment: with or without a TunnelManager, DEPLOYMENT_MODE set to any
\* of its values or not set.
DeploymentModes == {"", "standalone", "master", "slave"}
InitCluster ==
  /\ InitFabric
  /\ tunnelManager \in BOOLEAN
  /\ deploymentMode \in DeploymentModes

RegistryNext ==
  \/ PeerConnect
  \/ \E c \in Conns : PeerAuth(c)
  \/ \E c \in Conns : PeerPing(c)
  \/ \E c \in Conns : PeerGarbage(c)
  \/ \E c \in Conns : PeerConsume(c)
  \/ \E c \in Conns : MasterConnClosed(c)
  \/ \E c \in Conns : MasterAuthTimer(c)

HttpNext ==
  \/ UserHttpRequest
  \/ \E r \in RequestIds : UserBodyRead(r)
  \/ \E r \in RequestIds : MasterRequestTimeout(r)
  \/ \E c \in Conns : PeerResponse(c)
  \/ \E c \in Conns : PeerError(c)

WsNext ==
  \/ UserOpensTunnel
  \/ \E t \in TunnelIds : UserSendsFrame(t)
  \/ \E t \in TunnelIds : UserSocketClosed(t)
  \/ \E t \in TunnelIds : UserSocketDrains(t)
  \/ \E c \in Conns : PeerWsData(c)
  \/ \E c \in Conns : PeerWsTunnelClosed(c)

\* The master with arbitrary peers on its control connections, serving HTTP.
Next == RegistryNext \/ HttpNext
Spec == Init /\ [][Next]_vars

\* The master with arbitrary peers on its control connections, serving tunnels.
NextWs == RegistryNext \/ WsNext
SpecWs == Init /\ [][NextWs]_vars

\* The master and one TunnelClient, carrying tunnels.
NextTunnel ==
  \/ ClientStart
  \/ ClientReconnect
  \/ \E c \in Conns : MasterAccept(c)
  \/ \E c \in Conns : ClientOpen(c)
  \/ \E c \in Conns : ClientConnClosed(c)
  \/ \E c \in Conns : MasterConnClosed(c)
  \/ \E c \in Conns : MasterAuthTimer(c)
  \/ \E c \in Conns : MasterRecv(c)
  \/ \E c \in Conns : ClientRecv(c)
  \/ ClientPing
  \/ UserOpensTunnel
  \/ \E t \in TunnelIds : UserSendsFrame(t)
  \/ \E t \in TunnelIds : UserSocketClosed(t)
  \/ \E t \in TunnelIds : LocalSocketOpens(t)
  \/ \E t \in TunnelIds : LocalSendsFrame(t)
  \/ \E t \in TunnelIds : LocalSocketClosed(t)
SpecTunnel == Init /\ [][NextTunnel]_vars

\* The master, its request router and one TunnelClient, forwarding HTTP.
NextHttp ==
  \/ ClientStart
  \/ ClientReconnect
  \/ \E c \in Conns : MasterAccept(c)
  \/ \E c \in Conns : ClientOpen(c)
  \/ \E c \in Conns : ClientConnClosed(c)
  \/ \E c \in Conns : MasterConnClosed(c)
  \/ \E c \in Conns : MasterRecv(c)
  \/ \E c \in Conns : ClientRecv(c)
  \/ UserRequest
  \/ \E r \in RequestIds : UserBodyRead(r)
  \/ \E r \in RequestIds : MasterRequestTimeout(r)
  \/ \E k \in CallIds : UserReply(k)
  \/ \E r \in RequestIds : LocalServiceAnswers(r)
  \/ \E r \in RequestIds : LocalServiceFails(r)
SpecHttp == Init /\ [][NextHttp]_vars

\* A server in any deployment answering the cluster routes; where a
\* TunnelManager exists, peers connect to it.
NextCluster ==
  \/ tunnelManager /\ RegistryNext
  \/ UserGetsStatus
  \/ UserGetsSlaves
  \/ \E id \in ClusterIds : UserGetsSlave(id)
  \/ \E id \in ClusterIds : UserGetsHealth(id)
SpecCluster == InitCluster /\ [][NextCluster]_vars

\* The master and one TunnelClient with requests pending and tunnels open,
\* receiving data that is not a frame of the protocol and responses that
\* answer no pending request.
NextFrames ==
  \/ ClientStart
  \/ ClientReconnect
  \/ \E c \in Conns : MasterAccept(c)
  \/ \E c \in Conns : ClientOpen(c)
  \/ \E c \in Conns : ClientConnClosed(c)
  \/ \E c \in Conns : MasterConnClosed(c)
  \/ \E c \in Conns : MasterRecv(c)
  \/ \E c \in Conns : ClientRecv(c)
  \/ UserHttpRequest
  \/ \E r \in RequestIds : UserBodyRead(r)
  \/ UserOpensTunnel
  \/ \E t \in TunnelIds : LocalSocketOpens(t)
  \/ \E c \in Conns : PeerGarbage(c)
  \/ \E c \in Conns : ClientGarbage(c)
  \/ \E c \in Conns : PeerResponse(c)
SpecFrames == Init /\ [][NextFrames]_vars

\* The master and one TunnelClient, forwarding HTTP to the slave's local service.
NextLocal ==
  \/ ClientStart
  \/ ClientReconnect
  \/ \E c \in Conns : MasterAccept(c)
  \/ \E c \in Conns : ClientOpen(c)
  \/ \E c \in Conns : ClientConnClosed(c)
  \/ \E c \in Conns : MasterConnClosed(c)
  \/ \E c \in Conns : MasterRecv(c)
  \/ \E c \in Conns : ClientRecv(c)
  \/ UserHttpRequest
  \/ \E r \in RequestIds : UserBodyRead(r)
  \/ \E r \in RequestIds : MasterRequestTimeout(r)
  \/ \E r \in RequestIds : LocalServiceAnswers(r)
  \/ \E r \in RequestIds : LocalServiceFails(r)
SpecLocal == Init /\ [][NextLocal]_vars

\* The master and one TunnelClient that keeps redialling, on the control
\* connection alone.
NextControl ==
  \/ ClientStart
  \/ ClientRedial
  \/ \E c \in Conns : MasterAccept(c)
  \/ \E c \in Conns : ClientOpen(c)
  \/ \E c \in Conns : ClientConnClosed(c)
  \/ \E d \in Dials : ClientDialFails(d)
  \/ \E c \in Conns : MasterConnClosed(c)
  \/ \E c \in Conns : MasterAuthTimer(c)
  \/ \E c \in Conns : MasterRecv(c)
  \/ \E c \in Conns : ClientRecv(c)
  \/ ClientPing
  \/ \E c \in Conns : PeerGarbage(c)
  \/ \E c \in Conns : ClientGarbage(c)
SpecControl == Init /\ [][NextControl]_vars

\* The master and one TunnelClient that is started, stopped and started again
\* while its control connections open and close.
NextLifecycle ==
  \/ ClientStart
  \/ ClientStop
  \/ ClientRedial
  \/ \E c \in Conns : MasterAccept(c)
  \/ \E c \in Conns : ClientOpen(c)
  \/ \E c \in Conns : ClientConnClosed(c)
  \/ \E d \in Dials : ClientDialFails(d)
  \/ \E c \in Conns : MasterConnClosed(c)
  \/ \E c \in Conns : MasterRecv(c)
  \/ \E c \in Conns : ClientRecv(c)
  \/ ClientPing
SpecLifecycle == Init /\ [][NextLifecycle]_vars

\* The browser: the user selects clients while the application calls
\* authenticatedFetch.
UserSelects(id) ==
  /\ SelectClient(id)
  /\ UNCHANGED <<masterVars, chanVars, clientVars, routerVars, localHttp,
                 clusterVars, fetchCall>>
AppFetches(url, options) ==
  /\ \E isPlatform, capacitor \in BOOLEAN : \E token \in {NoItem, "jwt"} :
       authenticatedFetch(url, options, isPlatform, token, capacitor)
  /\ UNCHANGED <<masterVars, chanVars, clientVars, routerVars, localHttp,
                 clusterVars, selectedClient>>
NextUi ==
  \/ \E id \in StoredClients : UserSelects(id)
  \/ \E url \in FetchUrls : \E options \in FetchOptions : AppFetches(url, options)
SpecUi == Init /\ [][NextUi]_vars

\* ------------------------------------------------------------------ claims
Registered(s) == MapGet(slaves, s).ws
RegisteredNext(s) == MapGet(slaves', s).ws
ClosesNow(c) == connState[c] # "CLOSED" /\ connState'[c] = "CLOSED"

\* C1: when connection b completes a valid auth for an id registered on the open
\* connection a, a is closed with code 4004 and the registry entry refers to b; and
\* when the master then handles a's close event while b stays open, the entry
\* still refers to b.
C1_ReplacementSurvivesOldClose ==
  [][\A a \in Conns, b \in Conns, s \in SlaveIds :
       /\ ( /\ MapHas(slaves, s) /\ Registered(s) = a /\ connState[a] = "OPEN"
            /\ a # b
            /\ ~connAuthenticated[b] /\ connAuthenticated'[b] /\ connSlaveId'[b] = s )
          => ( /\ connState'[a] = "CLOSING" /\ closeCode'[a] = ReplacedCode
               /\ MapHas(slaves', s) /\ RegisteredNext(s) = b )
       /\ ( /\ MapHas(slaves, s) /\ Registered(s) = b /\ connState'[b] = "OPEN"
            /\ a # b /\ connSlaveId[a] = s /\ closeCode[a] = ReplacedCode /\ ClosesNow(a) )
          => ( MapHas(slaves', s) /\ RegisteredNext(s) = b )
    ]_vars

\* C2: the registry holds at most one record per slave-id, and a step that
\* installs a record for an id whose registered connection is open issues
\* close(4004) on that connection.
C2_OneRecordAndEviction ==
  /\ [](\A r1 \in slaves, r2 \in slaves : r1.id = r2.id => r1 = r2)
  /\ [][\A s \in SlaveIds :
          ( /\ MapHas(slaves, s) /\ connState[Registered(s)] = "OPEN"
            /\ MapHas(slaves', s) /\ RegisteredNext(s) # Registered(s) )
          => ( /\ connState'[Registered(s)] = "CLOSING"
               /\ closeCode'[Registered(s)] = ReplacedCode )
       ]_vars

\* A connection was replaced: it carries close code 4004 and its id is
\* registered on another, open connection.
C2_Witness ==
  \E a \in Conns, s \in SlaveIds :
    /\ closeCode[a] = ReplacedCode /\ connSlaveId[a] = s
    /\ MapHas(slaves, s) /\ Registered(s) # a /\ connState[Registered(s)] = "OPEN"

\* C3: handling the close of an authenticated slave's control connection fails
\* every pending request forwarded to that slave with "slave disconnected" and
\* removes it from the pending map.
C3_CloseFailsPending ==
  [][\A c \in Conns :
       (ClosesNow(c) /\ connAuthenticated[c])
       => \A r \in pendingRequests :
            req[r].slaveId = connSlaveId[c]
            => ( /\ r \notin pendingRequests'
                 /\ req'[r].state = "rejected"
                 /\ req'[r].error = "slave disconnected" )
    ]_vars

\* The master with its timers firing: a request timer that stays armed fires.
FairSpec == Spec /\ \A r \in RequestIds : WF_vars(MasterRequestTimeout(r))

\* C4: every pending request is eventually settled and out of the pending map.
C4_PendingEventuallySettled ==
  \A r \in RequestIds :
    (r \in pendingRequests)
      ~> (r \notin pendingRequests /\ req[r].state \in {"resolved", "rejected"})

\* A request timed out after its slave had left the registry.
C4_Witness ==
  \E r \in RequestIds :
    /\ req[r].state = "rejected" /\ req[r].error = "Request timeout"
    /\ r \notin pendingRequests
    /\ ~MapHas(slaves, req[r].slaveId)

\* C5: a waiter is resolved or rejected at most once, and once a request is
\* settled no frame or timer changes it, its pending entry or its timer.
C5_SettledOnce ==
  /\ [](\A r \in RequestIds : req[r].settles <= 1)
  /\ [][\A r \in RequestIds :
          req[r].state \in {"resolved", "rejected"}
          => ( /\ req'[r] = req[r]
               /\ r \notin pendingRequests' /\ r \notin reqTimer' )
       ]_vars

\* One request resolved by a response frame and one rejected by its timer.
C5_Witness ==
  \E r1, r2 \in RequestIds :
    /\ req[r1].state = "resolved" /\ req[r1].settles = 1
    /\ req[r2].state = "rejected" /\ req[r2].error = "Request timeout"
    /\ req[r2].settles = 1

\* C6: a step that removes a slave's record removes every tunnel record of that
\* slaveId and leaves none of their user WebSockets open; no tunnel record names
\* a slaveId absent from the registry.
C6_TunnelsGoWithSlave ==
  /\ [](\A t \in tunnels : MapHas(slaves, t.slaveId))
  /\ [][\A s \in SlaveIds :
          (MapHas(slaves, s) /\ ~MapHas(slaves', s))
          => \A t \in tunnels :
               t.slaveId = s
               => (~MapHas(tunnels', t.id) /\ userWs'[t.id] \in {"CLOSING", "CLOSED"})
       ]_vars

\* A slave's record has gone and with it a tunnel whose user WebSocket the
\* master closed.
C6_Witness ==
  \E t \in TunnelIds, c \in Conns :
    /\ userWs[t] = "CLOSING" /\ ~MapHas(tunnels, t)
    /\ tunnelWs[t] = c /\ connState[c] = "CLOSED"
    /\ ~MapHas(slaves, connSlaveId[c])

\* C7: no http_request frame carries a header sanitizeHeaders is to remove, and
\* the frame of a request still waiting carries every other header of the user
\* request, with its value, and nothing else.
C7_HopByHopHeadersStripped ==
  \A c \in Conns : \A i \in 1..Len(toSlave[c]) :
    LET f == toSlave[c][i] IN
    f.type = "http_request"
    => /\ \A h \in {"connection", "keep-alive", "proxy-authenticate",
                    "proxy-authorization", "te", "trailers", "transfer-encoding",
                    "upgrade", "x-target-slave"} : h \notin DOMAIN f.headers
       /\ req[f.requestId].state = "waiting"
          => LET orig == req[f.requestId].headers IN
             /\ DOMAIN f.headers \subseteq DOMAIN orig
             /\ \A h \in DOMAIN orig \ StrippedHeaders :
                  h \in DOMAIN f.headers /\ f.headers[h] = orig[h]

\* An http_request frame is in flight for a user request that carried
\* x-target-slave and connection beside a header that is forwarded.
C7_Witness ==
  \E c \in Conns : \E i \in 1..Len(toSlave[c]) :
    LET f == toSlave[c][i] IN
    /\ f.type = "http_request"
    /\ req[f.requestId].state = "waiting"
    /\ {"x-target-slave", "connection", "accept"} \subseteq DOMAIN req[f.requestId].headers
    /\ DOMAIN f.headers = {"accept"}

OneTo(n) == [i \in 1..n |-> i]
IsPrefix(p, q) == Len(p) <= Len(q) /\ \A i \in 1..Len(p) : p[i] = q[i]
InFlight(q, t, type) ==
  \E c \in Conns : \E i \in 1..Len(q[c]) : q[c][i].type = type /\ q[c][i].tunnelId = t
\* Neither end of tunnel t has closed, and its control connection is up.
TunnelUp(t) ==
  /\ userWs[t] = "OPEN" /\ localWs[t] \notin {"CLOSING", "CLOSED"}
  /\ connState[tunnelWs[t]] = "OPEN" /\ peerState[tunnelWs[t]] = "OPEN"

\* C8: while neither end of a tunnel has closed, the local WebSocket has received
\* the frames the user WebSocket emitted, in order and without a gap (all of
\* them once none is in flight), and the user WebSocket likewise those of the
\* local WebSocket.
C8_RelayInOrder ==
  \A t \in TunnelIds :
    TunnelUp(t)
    => /\ IsPrefix(localRecv[t], OneTo(userSent[t]))
       /\ ~InFlight(toSlave, t, "ws_message") => localRecv[t] = OneTo(userSent[t])
       /\ IsPrefix(userRecv[t], OneTo(localSent[t]))
       /\ ~InFlight(toMaster, t, "ws_data") => userRecv[t] = OneTo(localSent[t])

\* C9: once the user has closed the user-side WebSocket of a tunnel, the tunnel
\* record is gone, and once the slave has read every frame sent for that tunnel
\* the local WebSocket is closed and forgotten.
C9_UserCloseReachesLocal ==
  \A t \in TunnelIds :
    userWs[t] = "CLOSED"
    => /\ ~MapHas(tunnels, t)
       /\ ( /\ connState[tunnelWs[t]] = "OPEN" /\ peerState[tunnelWs[t]] = "OPEN"
            /\ \A i \in 1..Len(toSlave[tunnelWs[t]]) :
                 toSlave[tunnelWs[t]][i].type \notin {"ws_tunnel_open", "ws_tunnel_close"} )
          => (localWs[t] \in {"CLOSING", "CLOSED"} /\ t \notin localTunnels)

\* C10: the step in which the slave sees a control connection closed stops the
\* ping timer, leaves no local WebSocket of that connection open, empties the
\* local tunnel map and arms the reconnect timer; and whenever the current
\* control connection is open, no local WebSocket created under an earlier
\* connection is open or in the map.
C10_CloseCleansLocalTunnels ==
  /\ [][\A c \in Conns :
          (peerState[c] # "CLOSED" /\ peerState'[c] = "CLOSED")
          => ( /\ ~pingInterval' /\ localTunnels' = {} /\ reconnectTimer'
               /\ \A t \in TunnelIds : localConn[t] = c => localWs'[t] # "OPEN" )
       ]_vars
  /\ []( (clientWs # 0 /\ peerState[clientWs] = "OPEN")
         => \A t \in TunnelIds :
              localConn[t] \notin {0, clientWs}
              => (localWs[t] # "OPEN" /\ t \notin localTunnels) )

\* The auth frames a peer can send, and those handleAuth refuses.
AuthFrames ==
  {[type |-> "auth", slaveId |-> id, secret |-> secret] :
     id \in SlaveIds \cup {NoSlave}, secret \in Secrets}
RefusedAuthFrames ==
  {m \in AuthFrames : m.slaveId = NoSlave \/ m.secret = NoSecret \/ m.secret # Secret}
AwaitingAuth(c) == connState[c] = "OPEN" /\ ~connAuthenticated[c]

NonAuthFrames ==
  {[type |-> "response", requestId |-> r, status |-> 200, headers |-> NoHeaders,
    body |-> <<>>, error |-> e] :
     r \in RequestIds, e \in {NoError, "local error"}}
  \cup {[type |-> "error", requestId |-> r, error |-> e] :
          r \in RequestIds \cup {NoRequest}, e \in {NoError, "local error"}}
  \cup {[type |-> "ws_data", tunnelId |-> t, data |-> d] :
          t \in TunnelIds, d \in 1..MaxFrames}
  \cup {[type |-> "ws_tunnel_closed", tunnelId |-> t] : t \in TunnelIds}
  \cup PingFrames \cup {[type |-> "unknown"]}

\* C13: a step in which the master handles a well-formed frame other than auth
\* on an open connection that has not authenticated closes that connection with
\* code 4003 and changes nothing else of the master: no request is settled, no
\* tunnel touched, no record written, no frame sent.
C13_NonAuthClosed4003 ==
  [][\A c \in Conns : \A m \in NonAuthFrames :
       (AwaitingAuth(c) /\ OnMessage(c, m))
       => ( /\ connState'[c] = "CLOSING" /\ closeCode'[c] = ExpectedAuthCode
            /\ ~connAuthenticated'[c]
            /\ slaves' = slaves /\ authTimer' = authTimer
            /\ UNCHANGED <<reqVars, tunVars, toSlave>>
            /\ \A d \in Conns \ {c} :
                 connState'[d] = connState[d] /\ closeCode'[d] = closeCode[d] )
    ]_vars

\* A connection was closed with 4003 while a request forwarded to a registered
\* slave is still pending.
C13_Witness ==
  \E c \in Conns, r \in RequestIds :
    /\ connState[c] = "CLOSING" /\ closeCode[c] = ExpectedAuthCode
    /\ ~connAuthenticated[c]
    /\ r \in pendingRequests /\ req[r].state = "waiting"

\* C14: a step in which the authTimer of an open connection fires without a
\* valid auth accepted closes the connection with code 4001; the timer of a
\* connection that has authenticated or closed is not armed, and no step issues
\* a close with 4001 on such a connection.
C14_AuthTimeout ==
  /\ [][\A c \in Conns :
          ( /\ c \in authTimer /\ c \notin authTimer'
            /\ connState[c] = "OPEN" /\ connState'[c] # "CLOSED"
            /\ ~connAuthenticated'[c] )
          => (connState'[c] = "CLOSING" /\ closeCode'[c] = AuthTimeoutCode)
       ]_vars
  /\ [](\A c \in Conns :
          (connAuthenticated[c] \/ connState[c] = "CLOSED") => c \notin authTimer)
  /\ [][\A c \in Conns :
          (connAuthenticated[c] \/ connState[c] = "CLOSED")
          => (closeCode'[c] = AuthTimeoutCode => closeCode[c] = AuthTimeoutCode)
       ]_vars

\* One connection timed out with 4001 and closed; another authenticated and is
\* open with its timer cancelled.
C14_Witness ==
  \E a, b \in Conns :
    /\ closeCode[a] = AuthTimeoutCode /\ connState[a] = "CLOSED"
    /\ connAuthenticated[b] /\ connState[b] = "OPEN" /\ b \notin authTimer

\* C15: the step that accepts a valid auth on an open connection sends one
\* auth_success with the same slaveId on that connection and no other step sends
\* one; and while a connection that authenticated is open, isSlaveConnected
\* holds of its id and getSlaves lists the id as connected.
C15_AuthenticatedStaysConnected ==
  /\ [][\A c \in Conns :
          /\ (connState[c] = "OPEN" /\ ~connAuthenticated[c] /\ connAuthenticated'[c])
             => toSlave'[c] = Append(toSlave[c], [type |-> "auth_success",
                                                  slaveId |-> connSlaveId'[c]])
          /\ ( /\ Len(toSlave'[c]) > Len(toSlave[c])
               /\ toSlave'[c][Len(toSlave'[c])].type = "auth_success" )
             => (~connAuthenticated[c] /\ connAuthenticated'[c])
       ]_vars
  /\ [](\A c \in Conns :
          (connAuthenticated[c] /\ connState[c] = "OPEN")
          => /\ isSlaveConnected(connSlaveId[c])
             /\ \E e \in getSlaves : e.id = connSlaveId[c] /\ e.status = "connected")

\* The local WebSocket of tunnel t closes in this step (or fails to open).
LocalClosesNow(t) == localWs[t] \in {"CONNECTING", "OPEN", "CLOSING"} /\ localWs'[t] = "CLOSED"
\* The master handles, in this step, a ws_tunnel_closed frame for t read from c.
MasterReadsTunnelClosed(c, t) ==
  /\ connAuthenticated[c] /\ connState[c] \in {"OPEN", "CLOSING"} /\ ~ClosesNow(c)
  /\ toMaster[c] # <<>> /\ toMaster'[c] = Tail(toMaster[c])
  /\ Head(toMaster[c]) = [type |-> "ws_tunnel_closed", tunnelId |-> t]
\* The slave handles, in this step, the ws_tunnel_open frame for t read from c.
SlaveReadsTunnelOpen(c, t) ==
  /\ peerState[c] \in {"OPEN", "CLOSING"} /\ peerState'[c] = peerState[c]
  /\ toSlave[c] # <<>> /\ toSlave'[c] = Tail(toSlave[c])
  /\ Head(toSlave[c]).type = "ws_tunnel_open" /\ Head(toSlave[c]).tunnelId = t

\* C11: the step in which the local WebSocket of a tunnel closes, or in which
\* the slave fails to open one for a ws_tunnel_open, emits ws_tunnel_closed for
\* that tunnel and leaves it out of the local tunnel map; the step in which the
\* master handles that frame leaves the user WebSocket not open and the tunnel
\* record removed; and once the record is removed nothing more is written to the
\* user WebSocket.
C11_LocalCloseReachesUser ==
  [][\A t \in TunnelIds :
       /\ ( \/ LocalClosesNow(t)
            \/ \E c \in Conns : SlaveReadsTunnelOpen(c, t) /\ localWs'[t] = "unused" )
          => /\ t \notin localTunnels'
             /\ clientWs # 0
             /\ toMaster'[clientWs] = Append(toMaster[clientWs],
                                             [type |-> "ws_tunnel_closed", tunnelId |-> t])
       /\ \A c \in Conns :
            MasterReadsTunnelClosed(c, t)
            => (~MapHas(tunnels', t) /\ userWs'[t] # "OPEN")
       /\ ~MapHas(tunnels, t) => userRecv'[t] = userRecv[t]
    ]_vars

\* The middleware is invoked for call k in this step.
RouterStarts(k) == calls[k].state = "unused" /\ calls'[k].state # "unused"
\* The middleware of call k writes its reply to a forwarded request in this step.
RouterReplies(k) == calls[k].state = "awaiting" /\ calls'[k].state = "done"

\* C16: for a forwarded request whose promise resolved, the status written to
\* the user is the status the slave's local service returned and the body
\* bytes written are the bytes it returned.
C16_RoundTrip ==
  \A k \in CallIds :
    ( /\ calls[k].state = "done" /\ calls[k].requestId # NoRequest
      /\ req[calls[k].requestId].state = "resolved"
      /\ localHttp[calls[k].requestId].state = "answered" )
    => /\ calls[k].status = localHttp[calls[k].requestId].status
       /\ calls[k].body = localHttp[calls[k].requestId].body

\* C17: a request whose path begins with /api/cluster/ goes to the local
\* handler chain: the middleware calls next, forwards nothing and writes nothing.
C17_ClusterPathsLocal ==
  \A k \in CallIds :
    ( /\ calls[k].state # "unused"
      /\ Len(calls[k].path) >= 2 /\ SubSeq(calls[k].path, 1, 2) = <<"api", "cluster">> )
    => /\ calls[k].state = "local" /\ calls[k].nexts = 1
       /\ calls[k].requestId = NoRequest /\ calls[k].writes = 0

\* C18: the step in which the middleware is invoked with X-Target-Slave naming
\* a slave that is not connected writes 503 {error: "Slave not connected",
\* slaveId, message}, does not call next, sends no frame and creates no pending
\* request; that reply is the call's only one.
C18_NotConnected503 ==
  /\ [][\A k \in CallIds :
          ( /\ RouterStarts(k)
            /\ calls'[k].target \notin {NoSlave, "local"}
            /\ ~isSlaveConnected(calls'[k].target) )
          => ( /\ calls'[k].state = "done" /\ calls'[k].writes = 1
               /\ calls'[k].status = ServiceUnavailable
               /\ calls'[k].error = "Slave not connected"
               /\ calls'[k].slaveId = calls'[k].target
               /\ calls'[k].message = <<"The target client", calls'[k].target,
                                        "is not currently connected">>
               /\ calls'[k].nexts = 0 /\ calls'[k].requestId = NoRequest
               /\ UNCHANGED <<reqVars, toSlave>> )
       ]_vars
  /\ [](\A k \in CallIds :
          calls[k].status = ServiceUnavailable
          => (calls[k].writes = 1 /\ calls[k].nexts = 0 /\ calls[k].requestId = NoRequest))

\* A request for s1 was refused with 503 after s1 had been connected and its
\* connection closed.
C18_Witness ==
  \E k \in CallIds, c \in Conns :
    /\ calls[k].state = "done" /\ calls[k].status = ServiceUnavailable
    /\ calls[k].target = "s1" /\ calls[k].slaveId = "s1"
    /\ connSlaveId[c] = "s1" /\ connState[c] = "CLOSED"
    /\ pendingRequests = {} /\ nextRequestId = 1

\* C19: the step in which the middleware resumes after forwardHttpRequest's
\* promise was rejected writes 502 {error: "Tunnel error", slaveId, message}
\* with the rejection's message; no call writes more than one response, and a
\* call that has replied is not changed again.
C19_ForwardFailure502 ==
  /\ [][\A k \in CallIds :
          /\ (RouterReplies(k) /\ req[calls[k].requestId].state = "rejected")
             => ( /\ calls'[k].status = BadGateway
                  /\ calls'[k].error = "Tunnel error"
                  /\ calls'[k].slaveId = calls[k].target
                  /\ calls'[k].message = <<req[calls[k].requestId].error>>
                  /\ calls'[k].writes = 1 /\ calls'[k].nexts = 0 )
          /\ calls[k].state = "done" => calls'[k] = calls[k]
       ]_vars
  /\ [](\A k \in CallIds :
          /\ calls[k].writes <= 1
          /\ calls[k].state = "done" => calls[k].writes = 1
          /\ calls[k].state = "awaiting" => calls[k].writes = 0)

\* One request failed with the slave's error and one with the master's timeout,
\* each answered 502 once.
C19_Witness ==
  \E k1, k2 \in CallIds :
    /\ calls[k1].status = BadGateway /\ calls[k1].message = <<"ECONNREFUSED">>
    /\ calls[k1].writes = 1
    /\ calls[k2].status = BadGateway /\ calls[k2].message = <<"Request timeout">>
    /\ calls[k2].writes = 1

\* C20: the step in which the middleware is invoked without X-Target-Slave, or
\* with the value "local", calls next once and changes nothing of the master:
\* no frame, no pending request; and such a call never writes a response.
C20_LocalPassThrough ==
  /\ [][\A k \in CallIds :
          (RouterStarts(k) /\ calls'[k].target \in {NoSlave, "local"})
          => ( /\ calls'[k].state = "local" /\ calls'[k].nexts = 1
               /\ calls'[k].writes = 0 /\ calls'[k].requestId = NoRequest
               /\ UNCHANGED <<masterVars, toSlave>> )
       ]_vars
  /\ [](\A k \in CallIds :
          calls[k].state = "local"
          => (calls[k].writes = 0 /\ calls[k].nexts = 1 /\ calls[k].status = 0))

\* With s1 connected, one request without the header and one with "local" went
\* to the local chain.
C20_Witness ==
  \E k1, k2 \in CallIds :
    /\ calls[k1].state = "local" /\ calls[k1].target = NoSlave
    /\ calls[k2].state = "local" /\ calls[k2].target = "local"
    /\ isSlaveConnected("s1")

\* C21: every step that schedules a reconnect arms the timer with a delay of
\* min(baseDelay * 2^attempt, maxDelay) plus a jitter in [0, 1000) ms, attempt
\* being the counter before the step increments it; scheduled with the counter
\* at 0 the delay lies in [5000, 6000) ms; and no delay reaches 61000 ms.
C21_ReconnectDelay ==
  /\ [][\A d \in Dials :
          OnClientClose(d)
          => ( /\ reconnectTimer'
               /\ (reconnectDelay' - Min(BaseDelay * Pow2(reconnectAttempts), MaxDelay))
                    \in 0..999
               /\ reconnectAttempts' = reconnectAttempts + 1
               /\ (reconnectAttempts = 0 => reconnectDelay' \in 5000..5999) )
       ]_vars
  /\ [](reconnectDelay < 61000)

\* The sixth consecutive failure has been scheduled: the delay is capped at
\* maxDelay and carries the largest jitter.
C21_Witness ==
  /\ reconnectTimer /\ reconnectAttempts = 6
  /\ reconnectDelay = MaxDelay + 999

\* An armed reconnect timer eventually fires.
FairSpecControl == SpecControl /\ WF_vars(ClientRedial)

\* The WebSockets of the client that have emitted close.
ClosedDials == {d \in Dials : peerState[d] = "CLOSED"}

\* C22: whenever k WebSockets the started client dialled have closed (after
\* being open, or because the dial failed), a dial beyond those k is eventually
\* made, for every k the model counts up to: each close is followed by a new
\* dial, however many came before.
C22_ReconnectsIndefinitely ==
  \A k \in 1..(MaxConns + MaxFailedDials - 1) :
    (started /\ Cardinality(ClosedDials) = k) ~> (nextConn > k + 1)

\* Every earlier dial has closed, the last after authenticating, and the client
\* is dialling again.
C22_Witness ==
  /\ clientWs = MaxConns + MaxFailedDials /\ peerState[clientWs] = "CONNECTING"
  /\ \A d \in Dials \ {clientWs} : peerState[d] = "CLOSED"
  /\ reconnectAttempts = MaxFailedDials + 1

\* The client reads the frame at the head of connection c, of the given type.
ClientReads(c, type) ==
  /\ peerState[c] \in {"OPEN", "CLOSING"}
  /\ toSlave[c] # <<>> /\ Head(toSlave[c]).type = type
  /\ ClientRecv(c)

\* C23: the step that handles auth_success leaves the attempt counter at 0 and
\* each step that schedules a reconnect adds one to it; no other step changes
\* it, in particular not the open of a connection; so a reconnect scheduled with
\* the counter above 0 (no auth_success since the previous one) has a delay no
\* smaller than the previous base delay, and its base delay is at most maxDelay.
C23_AttemptCounter ==
  [][ /\ \A c \in Conns : ClientReads(c, "auth_success") => reconnectAttempts' = 0
      /\ \A d \in Dials :
           OnClientClose(d)
           => ( /\ reconnectAttempts' = reconnectAttempts + 1
                /\ reconnectDelay' < MaxDelay + 1000
                /\ reconnectAttempts > 0
                   => reconnectDelay' >= Min(BaseDelay * Pow2(reconnectAttempts - 1),
                                             MaxDelay) )
      /\ reconnectAttempts' # reconnectAttempts
         => \/ /\ reconnectAttempts' = 0
               /\ \E c \in Conns : ClientReads(c, "auth_success")
            \/ /\ reconnectAttempts' = reconnectAttempts + 1
               /\ \E d \in Dials : peerState[d] # "CLOSED" /\ peerState'[d] = "CLOSED"
      /\ \A c \in Conns :
           (peerState[c] = "CONNECTING" /\ peerState'[c] = "OPEN")
           => reconnectAttempts' = reconnectAttempts
    ]_vars

\* The first connection authenticated and closed; the second opened, sent its
\* auth and closed before any auth_success: the counter stands at 2.
C23_Witness ==
  /\ MaxConns >= 2
  /\ peerState[1] = "CLOSED" /\ peerState[2] = "CLOSED"
  /\ connAuthenticated[1] /\ ~connAuthenticated[2]
  /\ Len(toMaster[2]) = 1 /\ Head(toMaster[2]).type = "auth"
  /\ reconnectAttempts = 2 /\ reconnectDelay >= 2 * BaseDelay

\* Frames received are eventually handled, and a local call eventually
\* completes, fails or runs into forwardToLocal's 30-second timeout.
FairSpecLocal ==
  /\ SpecLocal
  /\ \A c \in Conns : WF_vars(MasterRecv(c)) /\ WF_vars(ClientRecv(c))
  /\ \A r \in RequestIds : WF_vars(LocalServiceAnswers(r) \/ LocalServiceFails(r))

\* this.ws is open, and the master's end of it has not gone.
ControlOpen ==
  clientWs # 0 /\ peerState[clientWs] = "OPEN" /\ connState[clientWs] # "CLOSED"

\* The response frame for requestId r, from the outcome recorded for the call.
ResponseFrame(r, call) ==
  [type |-> "response", requestId |-> r, status |-> call.status,
   headers |-> LocalResponseHeaders, body |-> Utf8Decode(call.body), error |-> NoError]

C25_LocalCallHeaders ==
  /\ [](\A r \in RequestIds :
          localHttp[r].state # "unused"
          => /\ localHttp[r].headers["host"] = LocalHost
             /\ localHttp[r].headers["x-cluster-internal-auth"] = Secret)
  /\ [][\A c \in Conns :
          ClientReads(c, "http_request")
          => LET m == Head(toSlave[c])
                 sent == localHttp'[m.requestId].headers
             IN /\ localHttp'[m.requestId].state = "inflight"
                /\ DOMAIN sent = DOMAIN m.headers \cup {"host", "x-cluster-internal-auth"}
                /\ \A h \in DOMAIN m.headers \ {"host", "x-cluster-internal-auth"} :
                     sent[h] = m.headers[h]
       ]_vars

\* A local call is in flight for a user request that carried its own host and
\* a forged x-cluster-internal-auth.
C25_Witness ==
  \E r \in RequestIds :
    /\ localHttp[r].state = "inflight"
    /\ req[r].state = "waiting"
    /\ {"host", "x-cluster-internal-auth", "cookie"} \subseteq DOMAIN req[r].headers
    /\ req[r].headers["host"] # LocalHost
    /\ req[r].headers["x-cluster-internal-auth"] # Secret
    /\ localHttp[r].headers["cookie"] = req[r].headers["cookie"]

\* Data that is not a frame of the protocol: a text JSON.parse rejects, and a
\* frame of a type neither side knows.
GarbageFrames == {[type |-> ty] : ty \in {"malformed", "unknown"}}

ResponseFrames ==
  {[type |-> "response", requestId |-> r, status |-> 200, headers |-> NoHeaders,
    body |-> <<>>, error |-> e] : r \in RequestIds, e \in {NoError, "local error"}}

\* C27: a step in which the master handles, on an authenticated connection, a
\* response frame whose requestId is not in the pending map settles no call,
\* cancels no timer, and leaves the pending map, the registry, the tunnel map
\* and the connections as they were; nothing is sent.
C27_StrayResponseDiscarded ==
  [][\A c \in Conns : \A m \in ResponseFrames :
       ( /\ Receiving(c) /\ connAuthenticated[c]
         /\ m.requestId \notin pendingRequests
         /\ OnMessage(c, m) )
       => ( /\ req' = req /\ reqTimer' = reqTimer
            /\ pendingRequests' = pendingRequests
            /\ slaves' = slaves
            /\ tunnels' = tunnels /\ userWs' = userWs
            /\ connState' = connState /\ toSlave' = toSlave )
    ]_vars

\* The state in which such a frame is discarded: one request already settled
\* and gone from the pending map, another still pending with its timer armed,
\* a tunnel open, and the slave's connection authenticated and open.
C27_Witness ==
  \E c \in Conns, r, q \in RequestIds, t \in TunnelIds :
    /\ connState[c] = "OPEN" /\ connAuthenticated[c]
    /\ req[r].state \in {"resolved", "rejected"} /\ r \notin pendingRequests
    /\ q \in pendingRequests /\ q \in reqTimer /\ req[q].state = "waiting"
    /\ MapHas(tunnels, t) /\ userWs[t] = "OPEN"

\* The ws_data frames a peer can send.
WsDataFrames ==
  {[type |-> "ws_data", tunnelId |-> t, data |-> d] : t \in TunnelIds, d \in 1..MaxFrames}

\* C28: a step in which the master handles ws_data for a tunnel whose user
\* WebSocket is open with its write buffer full leaves that buffer as it is,
\* closes the user WebSocket and removes the tunnel; so the buffer of a user
\* WebSocket never holds more than its capacity.
C28_BackPressure ==
  /\ [][\A c \in Conns : \A m \in WsDataFrames :
          ( /\ Receiving(c) /\ connAuthenticated[c]
            /\ MapHas(tunnels, m.tunnelId) /\ userWs[m.tunnelId] = "OPEN"
            /\ userBuffered[m.tunnelId] >= MaxBuffered
            /\ OnMessage(c, m) )
          => ( /\ userRecv'[m.tunnelId] = userRecv[m.tunnelId]
               /\ userBuffered'[m.tunnelId] = userBuffered[m.tunnelId]
               /\ userWs'[m.tunnelId] # "OPEN"
               /\ ~MapHas(tunnels', m.tunnelId) )
       ]_vars
  /\ [](\A t \in TunnelIds : userBuffered[t] <= MaxBuffered)

\* The master handles, on authenticated connection c, ping frame m of a slave
\* that is registered.
PingHandled(c, m) ==
  /\ Receiving(c) /\ connAuthenticated[c]
  /\ MapHas(slaves, connSlaveId[c])
  /\ OnMessage(c, m)

\* C29: a step in which the master handles a ping of a registered slave
\* changes, of the master's state, only lastPing in that slave's record, and
\* sends one pong with the ping's timestamp; and a record that stays in the
\* registry changes in no step other than the handling of a ping of its slave.
C29_PingEffect ==
  /\ [][\A c \in Conns : \A m \in PingFrames :
          PingHandled(c, m)
          => LET s == connSlaveId[c] IN
             /\ MapKeys(slaves') = MapKeys(slaves)
             /\ \A x \in MapKeys(slaves) \ {s} : MapGet(slaves', x) = MapGet(slaves, x)
             /\ MapGet(slaves', s).ws = MapGet(slaves, s).ws
             /\ UNCHANGED <<connState, connAuthenticated, connSlaveId, authTimer,
                            closeCode, reqVars, tunVars>>
             /\ \E d \in Conns :
                  toSlave' = [toSlave EXCEPT ![d] =
                                Append(@, [type |-> "pong", timestamp |-> m.timestamp])]
       ]_vars
  /\ [][\A s \in SlaveIds :
          ( /\ MapHas(slaves, s) /\ MapHas(slaves', s)
            /\ MapGet(slaves', s).ws = MapGet(slaves, s).ws
            /\ MapGet(slaves', s) # MapGet(slaves, s) )
          => \E c \in Conns : \E m \in PingFrames :
               connSlaveId[c] = s /\ PingHandled(c, m)
       ]_vars

\* C30: a reply of GET /api/cluster/status written where no TunnelManager
\* exists has mode "standalone", whatever DEPLOYMENT_MODE is, and lists no
\* slaves.
C30_StatusStandalone ==
  (clusterReply.route = "status" /\ ~tunnelManager)
  => /\ clusterReply.body.mode = "standalone"
     /\ clusterReply.body.connectedSlaves = 0
     /\ clusterReply.body.slaves = {}

\* C31: where a TunnelManager exists, the clients array GET /api/cluster/slaves
\* answers begins with the local entry (id "local", status "connected",
\* isLocal true), and the rest is one entry per registry record, each with
\* isLocal false and with status "connected" exactly when the socket of its
\* record is open.
C31_SlavesList ==
  [][(tunnelManager /\ UserGetsSlaves)
       => LET clients == clusterReply'.body.clients IN
          /\ clusterReply'.status = 200
          /\ Len(clients) = 1 + Cardinality(slaves)
          /\ clients[1].id = "local"
          /\ clients[1].status = "connected"
          /\ clients[1].isLocal
          /\ \A s \in slaves : \E i \in 2..Len(clients) : clients[i].id = s.id
          /\ \A i \in 2..Len(clients) :
               /\ ~clients[i].isLocal
               /\ MapHas(slaves, clients[i].id)
               /\ (clients[i].status = "connected")
                    <=> (connState[MapGet(slaves, clients[i].id).ws] = "OPEN")
    ]_vars

\* A reply of /slaves that lists, after the local entry, a slave whose
\* connection is open and one whose connection is not.
C31_Witness ==
  /\ tunnelManager
  /\ clusterReply.route = "slaves"
  /\ clusterReply.status = 200
  /\ Len(clusterReply.body.clients) = 3
  /\ \E i, j \in 2..3 :
       /\ clusterReply.body.clients[i].status = "connected"
       /\ clusterReply.body.clients[j].status = "disconnected"

\* C32: where no TunnelManager exists, every reply of GET /api/cluster/slaves,
\* /slaves/:id and /slaves/:id/health, for every id, "local" included, has
\* status 400 and error "Not in master mode", and every reply of
\* GET /api/cluster/status has status 200.
C32_NotInMasterMode ==
  ~tunnelManager
  => /\ clusterReply.route \in {"slaves", "slave", "health"}
          => /\ clusterReply.status = 400
             /\ clusterReply.body.error = "Not in master mode"
     /\ clusterReply.route = "status" => clusterReply.status = 200

\* Without a TunnelManager, /slaves/local has been asked for.
C32_Witness ==
  /\ ~tunnelManager
  /\ clusterReply.route = "slave"
  /\ clusterReply.id = "local"
  /\ clusterReply.status = 400

\* C33: a connection the master closed with 4001, 4002 or 4003 is closed for
\* the protocol: no later step marks it authenticated, binds a slave id to
\* it, or puts a record with this connection in the registry.
UnauthenticatedCloseCodes == {AuthTimeoutCode, AuthFailedCode, ExpectedAuthCode}
C33_ClosedIsFinal ==
  [][\A c \in Conns :
       (closeCode[c] \in UnauthenticatedCloseCodes /\ ~connAuthenticated[c])
       => /\ ~connAuthenticated'[c]
          /\ connSlaveId'[c] = NoSlave
          /\ \A s \in slaves' : s.ws # c
    ]_vars

\* C34: the step that handles the close of a control connection removes and
\* closes every tunnel that was created over that connection, and leaves
\* every tunnel created over another connection in the tunnel table with its
\* user socket as it was.
C34_CloseTakesOwnTunnels ==
  [][\A c \in Conns :
       (connState[c] \in {"OPEN", "CLOSING"} /\ connState'[c] = "CLOSED")
       => \A t \in MapKeys(tunnels) :
            IF tunnelWs[t] = c
            THEN ~MapHas(tunnels', t) /\ userWs'[t] # "OPEN"
            ELSE MapHas(tunnels', t) /\ userWs'[t] = userWs[t]
    ]_vars

\* C35: a response or error frame handled on a connection authenticated as
\* one slave leaves every request forwarded to another slave as it was:
\* still pending, its timer running, its promise not settled.
ErrorFrames ==
  {[type |-> "error", requestId |-> r, error |-> e] :
     r \in RequestIds, e \in {NoError, "local error"}}
C35_ResponsesStayWithTheirSlave ==
  [][\A c \in Conns : \A m \in ResponseFrames \cup ErrorFrames :
       ( /\ Receiving(c) /\ connAuthenticated[c]
         /\ m.requestId \in pendingRequests
         /\ req[m.requestId].slaveId # connSlaveId[c]
         /\ OnMessage(c, m) )
       => ( /\ pendingRequests' = pendingRequests
            /\ reqTimer' = reqTimer
            /\ req' = req )
    ]_vars

\* C36: a ws_data or ws_tunnel_closed frame handled on a connection
\* authenticated as one slave leaves every tunnel owned by another slave as it
\* was: in the tunnel table, its user socket in the same state, nothing
\* delivered to it.
TunnelClosedFrames == {[type |-> "ws_tunnel_closed", tunnelId |-> t] : t \in TunnelIds}
C36_TunnelFramesStayWithTheirSlave ==
  [][\A c \in Conns : \A m \in WsDataFrames \cup TunnelClosedFrames :
       ( /\ Receiving(c) /\ connAuthenticated[c]
         /\ MapHas(tunnels, m.tunnelId)
         /\ MapGet(tunnels, m.tunnelId).slaveId # connSlaveId[c]
         /\ OnMessage(c, m) )
       => ( /\ tunnels' = tunnels
            /\ userWs' = userWs
            /\ userRecv' = userRecv )
    ]_vars

\* C37: once stop() has been called and every WebSocket the client created
\* has had its close event handled, the client has no reconnect timer, no
\* ping timer and no local tunnel; and as long as start() is not called
\* again, no step dials the master.
Stopped == ~started /\ nextConn > 1
C37_StoppedStaysStopped ==
  /\ []( (Stopped /\ \A d \in Dials : peerState[d] \in {"unused", "CLOSED"})
         => (~reconnectTimer /\ ~pingInterval /\ localTunnels = {}) )
  /\ [][(Stopped /\ ~started') => nextConn' = nextConn]_vars

\* C38: at any time at most one WebSocket the client created is connecting or
\* open.
LiveDials == {d \in Dials : peerState[d] \in {"CONNECTING", "OPEN"}}
C38_OneControlConnection == Cardinality(LiveDials) <= 1

\* C39: a step that puts a ping frame on a control connection does so on a
\* connection that is open on the slave's side and on which the slave has
\* received auth_success: the master authenticated it while it was open, and
\* the auth_success frame it then sent is no longer in flight.
AuthSuccessReceived(c) ==
  /\ connAuthenticated[c]
  /\ closeCode[c] \notin UnauthenticatedCloseCodes
  /\ \A i \in DOMAIN toSlave[c] : toSlave[c][i].type # "auth_success"
C39_PingOnlyAfterAuthSuccess ==
  [][\A c \in Conns :
       ( /\ Len(toMaster'[c]) = Len(toMaster[c]) + 1
         /\ toMaster'[c][Len(toMaster'[c])].type = "ping" )
       => (peerState[c] = "OPEN" /\ AuthSuccessReceived(c))
    ]_vars

\* C40: every call of authenticatedFetch attaches the header X-Target-Slave
\* exactly when a client other than "local" is stored as selected (nothing
\* stored counts as "local") and the URL begins with none of /api/cluster/,
\* /api/user/ and /api/auth/; the value it attaches is the stored id; and
\* unless the caller's own headers name X-Target-Slave, the request carries
\* the header in exactly those calls.
XTargetSlave(headers) == {x \in headers : x[1] = "X-Target-Slave"}
C40_TargetSlaveHeader ==
  [][fetchCall' # fetchCall
       => LET url == fetchCall'.args.url
              options == fetchCall'.args.options
              routed == /\ selectedClient \notin {NoItem, "", "local"}
                        /\ \A p \in MasterOnlyPrefixes : ~StartsWith(url, p)
              expected == IF routed THEN {<<"X-Target-Slave", selectedClient>>}
                          ELSE {}
          IN /\ XTargetSlave(fetchCall'.defaultHeaders) = expected
             /\ XTargetSlave(options.headers) = {}
                  => XTargetSlave(fetchCall'.headers) = expected
    ]_vars

\* With s1 selected, /api/projects was fetched with X-Target-Slave: s1.
C40_Witness ==
  /\ selectedClient = "s1"
  /\ fetchCall.args.url = <<"/api", "/projects">>
  /\ XTargetSlave(fetchCall.headers) = {<<"X-Target-Slave", "s1">>}

====
